---- MODULE Spec2Model ----
(***************************************************************************)
(* Model of the DeGirum client protocol engine (DG::Client, dg_client.cpp) *)
(* and of the framing primitives of dg_socket.h.                           *)
(*                                                                         *)
(* The pipelined path is modelled thread by thread: every caller thread   *)
(* and the result receiving thread have a program counter; a section of   *)
(* code executed under m_communication_mutex is one step, code outside    *)
(* the mutex is split at every access to shared state.                    *)
(***************************************************************************)
EXTENDS Integers, Sequences, FiniteSets, TLC

\* ------------------------------------------------------------------ bounds
MaxSends == 3          \* frames handed to dataSend() over one behaviour
MaxDepth == 2          \* largest frame_queue_depth passed to openStream()
MaxLen == 2            \* longest buffer passed to main_protocol::write
MaxMsgs == 2           \* messages written and not yet read on one connection
LongLen == 258         \* length of the one long buffer (more than one byte of the header is used)
MaxTicks == 6          \* ticks of the clock over one connect attempt
MaxNameLen == 2        \* longest model name given to DgAcceleratorCtxInit
MaxFrames == 5         \* calls of DgAcceleratorProcess

\* --------------------------------------------------------------- constants
HEADER_SIZE == 4
MIN_COMPATIBLE_PROTOCOL_VERSION == 4
CURRENT_PROTOCOL_VERSION == 4

\* limits and defaults of the properties of the dgaccelerator element
G_MAXINT == 2147483647
DEFAULT_UNIQUE_ID == 15
DEFAULT_PROCESSING_WIDTH == 512
DEFAULT_PROCESSING_HEIGHT == 512
DEFAULT_GPU_ID == 0
DGACCELERATOR_BOX_COLOR_RED == 0
DGACCELERATOR_BOX_COLOR_BLACK == 6
\* size of the buffer a string property has to fit in, with its terminator
NAME_BUFFER == 128
\* FRAME_DIFF_LIMIT = max( 3, RING_BUFFER_SIZE - 1 ) for one or two input streams
FRAME_DIFF_LIMIT == 3

\* length of one tick of the clock, in milliseconds
TickMs == 500

\* ------------------------------------------------------------- input sets
\* values of connection_timeout_ms: the one detectServers passes, the
\* largest below one second, whole and broken seconds
ConnTimeouts == {3, 999, 1000, 1500, 2000}

Callers   == {"c1", "c2"}          \* caller threads
NoCallback == "nullptr"
Callbacks == {"cb1", "cb2"}        \* user callbacks

\* A stream response as DG::JsonHelper::errorCheck sees it: the "success"
\* field (absent, true, false) and the "msg" field (absent or a string).
Payloads ==
    { [success |-> "absent", msg |-> "absent"],
      [success |-> "false",  msg |-> "x"],
      [success |-> "false",  msg |-> "absent"],
      [success |-> "false",  msg |-> ""] }

\* A payload of length 0: the header says 0 and no msgpack value follows.
EmptyPayload == [success |-> "nopayload", msg |-> "nopayload"]
StreamPayloads == Payloads \cup {EmptyPayload}

\* The k-th frame handed to dataSend() or predict() has the data k and the frame_info fk;
\* both are written k, a response carries the number of the frame it answers.
NoFrame == 0
NoResult == [id |-> 0, tag |-> 0]

\* A json object as the command channel sees it.  The value of its "VERSION"
\* field, NoVersion when the field is absent.
NoVersion == 0
Versions == (MIN_COMPATIBLE_PROTOCOL_VERSION - 1)..(CURRENT_PROTOCOL_VERSION + 1)

\* the "op" codes of namespace commands and the source each public method
\* passes to transmitCommand
Ops == {"sleep", "system_info", "zoo_manage"}
SourceOf(op) == CASE op = "sleep" -> "ping"
                  [] op = "system_info" -> "systemInfo"
                  [] op = "zoo_manage" -> "modelZooManage"
                  [] OTHER -> "none"

NoRequest == [op |-> "none", version |-> NoVersion]

\* arguments of openStream(): model names, and additional model parameters
\* (NoParams: an empty json value)
ModelNames == {"m1", "m2"}
NoParams == "empty"
ModelParams == {NoParams, "p1"}

\* the "stream" request as a record: a field that is not in the json object
\* has the value "absent", NoDepth for a number
NoDepth == 0
Requests == [op : Ops, version : {NoVersion} \cup Versions]

\* what the server may write back on the command socket: text that is not
\* json, a json value that is not an object, or an object with or without
\* the fields "VERSION", "success" and "msg"; "ioerror" when the write or
\* the read on the socket fails instead
NoResponse == [kind |-> "none", version |-> NoVersion, success |-> "absent", msg |-> "absent"]
Responses ==
    { [kind |-> k, version |-> NoVersion, success |-> "absent", msg |-> "absent"] : k \in {"malformed", "array", "ioerror"} }
    \cup [kind : {"object"}, version : {NoVersion} \cup Versions,
          success : {"absent", "true", "false"}, msg : {"absent", "x", ""}]

\* values a caller of lastError() can be given: no call yet, and a copy
\* that is neither the old nor the new string
NoString == "(no call)"
Torn == "(torn)"

\* --- the dgaccelerator element
\* A string value of a property: its text and its length.
DefaultModelName == [text |-> "yolo_v5s_coco--512x512_quant_n2x_orca_1", len |-> 39]
DefaultServerIp == [text |-> "127.0.0.1", len |-> 9]
DefaultCloudToken == [text |-> "", len |-> 0]

Props == {"unique-id", "processing-width", "processing-height", "model_name", "server_ip",
          "cloud_token", "box-color", "drop_frames", "gpu-id"}
StringProps == {"model_name", "server_ip", "cloud_token"}

\* gst_dgaccelerator_init: the defaults
DefaultElement ==
    [p \in Props |->
       CASE p = "unique-id" -> DEFAULT_UNIQUE_ID
         [] p = "processing-width" -> DEFAULT_PROCESSING_WIDTH
         [] p = "processing-height" -> DEFAULT_PROCESSING_HEIGHT
         [] p = "model_name" -> DefaultModelName
         [] p = "server_ip" -> DefaultServerIp
         [] p = "cloud_token" -> DefaultCloudToken
         [] p = "box-color" -> DGACCELERATOR_BOX_COLOR_RED
         [] p = "drop_frames" -> TRUE
         [] p = "gpu-id" -> DEFAULT_GPU_ID]

\* values within the range of each property's GParamSpec (lines 154-237)
\* that a caller sets
PropValues(p) ==
    CASE p = "unique-id" -> {G_MAXINT}
      [] p = "processing-width" -> {1, G_MAXINT}
      [] p = "processing-height" -> {1, G_MAXINT}
      [] p \in StringProps ->
           { [text |-> "s", len |-> n] : n \in {NAME_BUFFER - 1, NAME_BUFFER} }
      [] p = "box-color" -> {DGACCELERATOR_BOX_COLOR_BLACK}
      [] p = "drop_frames" -> {FALSE}
      [] p = "gpu-id" -> {G_MAXINT}

NoProp == [prop |-> "none", value |-> 0]

\* --- DgAcceleratorCtxInit
\* Model names are sequences of characters; '/' marks a cloud model.
NameChars == {"a", "A", "b", "/"}
ModelNameStrings == UNION { [1..n -> NameChars] : n \in 0..MaxNameLen }
CloudTokens == {<<>>, <<"t">>}
Dims == {300, 450}

\* the model zoo of the server: DG::ModelInfo entries (name, W, H) in the
\* order modelzooListGet returns them
ZooNames == { <<"a", "b">>, <<"b">> }
ModelInfos == [name : ZooNames, W : Dims, H : Dims]
Zoos == {<<>>} \cup { <<m>> : m \in ModelInfos }
          \cup { z \in { <<m1, m2>> : m1 \in ModelInfos, m2 \in ModelInfos } : z[1].name # z[2].name }
NoModel == [name |-> <<>>, W |-> 0, H |-> 0]
NoCtx == [model_name |-> <<>>, zoo |-> <<>>, cloud_token |-> <<>>, processing_width |-> 0,
          processing_height |-> 0, out |-> "none", model |-> FALSE]

VARIABLES
    threads,        \* caller threads that exist in this run
    streamOpen,     \* m_stream_socket.is_open()
    queueDepth,     \* m_frame_queue_depth
    callback,       \* m_async_result_callback
    outstanding,    \* m_async_outstanding_results
    stop,           \* m_async_stop
    lastError,      \* m_last_error
    frameQ,         \* m_frame_info_queue
    readArmed,      \* header reads queued on the executor by initiate_read()
    disp,           \* m_async_thread: "none" (not joinable), position in its body, "done" (finished, joinable)
    dispNotified,   \* m_waiter was notified (or its predicate held) since the thread began to wait
    dispCur,        \* result and frame info dataReceive() holds between unlock and callback
    pc,             \* position of each caller thread ("predict": in the read of predict())
    cur,            \* frame a caller thread is sending
    c2s,            \* frames written to the stream socket, not yet consumed by the server
    s2c,            \* responses written by the server, not yet read
    conn,           \* stream connection: "down", "up", "reset"
    crashed,        \* "no", or the way the process died
    \* history variables
    nsends,         \* number of frames handed to dataSend() and predict() so far
    accepted,       \* frames in the order their frame info was pushed
    delivered,      \* callback invocations in order
    last,           \* outcome of the last operation each caller thread completed; "running" during
                    \* an operation ("drain_again": a dataEnd() that follows a dataEnd(), "drain_twice"
                    \* when it has returned; "woken": a dataSend() that has waited for a slot)
    faulted,        \* an error response, an empty payload or a transport failure has occurred
    sessions,       \* number of result receiving threads started
    waitOrder,      \* caller threads blocked on a full queue, in blocking order
    \* a connection used through the framing primitives of dg_socket.h
    hsock,          \* the socket_t: "open" or "closed"
    hwire,          \* bytes written to it and not yet read by the peer
    hmsgs,          \* number of messages these bytes make up
    hsent,          \* history: the buffers written and not yet read, oldest first
    hgot,           \* what the last main_protocol::read on the peer socket returned
    hexc,           \* exception raised by the last call, or "none"
    hop,            \* the last call
    \* the command channel
    streamHello,    \* control message openStream() wrote on the stream socket
    cmdReq,         \* json handed to messagePrepare by the last call
    cmdSent,        \* json written out by the last call
    cmdResp,        \* response read by the last command
    cmdOut,         \* how the last call ended: "none", "prepared", "ok", "true", "false" or the error raised
    cmdMsg,         \* message of the error raised, in parts
    \* the shared executor driven by a caller thread, and the destructor
    execCur,        \* result and frame info dataReceive() holds on a caller thread that runs the executor
    cmdSocket,      \* m_command_socket: "open" or "closed"
    execRuns,       \* history: the positions at which a caller thread ran the handler of a header read
    \* one call of socket_connect made by the constructor of a Client
    ctimeout,       \* connection_timeout_ms given to the constructor
    cphase,         \* "none", "run_for", "run", "cancelled", "completed", "returned"
    cclock,         \* time since the call of run_async, in ticks of TickMs
    cerror,         \* the variable error of socket_connect
    cresult,        \* "none", "connected" or the exception raised
    \* the getters of the Client called by a thread of their own
    got,            \* lastError(): the string a caller is copying, then the string returned
    gotCount,       \* outstandingResultsCountGet(): the value returned
    \* the dgaccelerator element
    element,        \* the property fields of GstDgAccelerator
    propSet,        \* property and value of the last g_object_set_property
    propGot,        \* property and value of the last g_object_get_property
    ctx,            \* the last call of DgAcceleratorCtxInit: its inputs and its outcome
    drop_frames,    \* DgAcceleratorCtx::drop_frames
    diff,           \* DgAcceleratorCtx::diff, a size_t: a value below 0 stands for that value plus 2^64
    failed,         \* DgAcceleratorCtx::failed
    inflight,       \* frames handed to AIModelAsync::predict whose callback has not run to its end
    ppc,            \* position of the pipeline thread in DgAcceleratorProcess
    preg,           \* value of diff the pipeline thread has loaded for its ++ or --
    cpc,            \* position of the result receiving thread in the callback
    creg,           \* value of diff the callback has loaded for its --
    nframes         \* calls of DgAcceleratorProcess so far

clientVars == <<streamOpen, queueDepth, callback, outstanding, stop, lastError, frameQ, readArmed,
                disp, dispNotified, dispCur, pc, cur, crashed>>
wireVars   == <<c2s, s2c, conn>>
histVars   == <<nsends, accepted, delivered, last, faulted, sessions, waitOrder>>
hVars == <<hsock, hwire, hmsgs, hsent, hgot, hexc, hop>>
cmdVars == <<cmdReq, cmdSent, cmdResp, cmdOut, cmdMsg>>
lifeVars == <<execCur, cmdSocket, execRuns>>
connVars == <<ctimeout, cphase, cclock, cerror, cresult>>
getVars == <<got, gotCount>>
accVars == <<drop_frames, diff, failed, inflight, ppc, preg, cpc, creg, nframes>>
pluginVars == <<element, propSet, propGot, ctx, accVars>>
vars == <<threads, clientVars, wireVars, histVars, hVars, streamHello, cmdVars, lifeVars, connVars,
          getVars, pluginVars>>

\* ------------------------------------------------------------ pure helpers

\* DG::JsonHelper::errorCheck( response, "", false )
errorCheck(response) ==
    IF response.success = "false"
      THEN IF response.msg # "absent" THEN response.msg ELSE "unspecified error"
      ELSE ""

\* DG::messagePrepareJson
messagePrepareJson(in) ==
    IF in.version # NoVersion
      THEN in
      ELSE [in EXCEPT !.version = CURRENT_PROTOCOL_VERSION]

\* json::from_msgpack on the bytes of a payload: it raises parse_error on
\* an empty input
from_msgpack(payload) == IF payload = EmptyPayload THEN "parse_error" ELSE "ok"

\* (variant: the error test negated)
check_last_error_Negated == stop /\ lastError = ""

\* the lambda check_last_error of Client::dataSend
check_last_error == stop /\ lastError # ""

\* (variant: the comparison off by one)
SlotOrStop_OffByOne == outstanding <= queueDepth \/ stop

\* predicate of m_waiter.wait_for in Client::dataSend
SlotOrStop == outstanding < queueDepth \/ stop

\* std::thread::joinable() of m_async_thread
Joinable == disp # "none"

\* (variant: dataSend() arms a header read for every frame)
ArmOnSend_Always(n) == n >= 1

\* line 408: a header read is armed by dataSend() for the first outstanding frame
ArmOnSend(n) == n = 1

\* (variant: no read armed for the last outstanding frame)
ArmOnReceive_Late(n) == n > 1

\* (variant: dataReceive() arms a read after every result)
ArmOnReceive_Always(n) == n >= 0

\* line 499: dataReceive() arms the next header read
ArmOnReceive(n) == n > 0

\* the user callbacks that raise an exception when they are called
ThrowingCallbacks == {"cb2"}

\* (variant: the call of the user callback is not guarded)
CatchesCallback_None == FALSE

\* lines 506-511: the user callback is called inside try / catch( ... )
CatchesCallback == TRUE

\* (variant: the newest frame info instead of the oldest)
FrontInfo_Back(q) == q[Len(q)]

\* lines 484-485: the frame info dataReceive() takes from the queue
FrontInfo(q) == Head(q)
PopInfo(q) == Tail(q)

\* (variant: the thread leaves as soon as stop is requested)
LoopCond_StopOnly == ~stop

\* line 431: loop condition of the result receiving thread
LoopCond == ~stop \/ outstanding > 0

\* line 439: predicate of m_waiter.wait in the result receiving thread
WaitCond == outstanding > 0 \/ stop

\* m_waiter.notify_all() as the result receiving thread sees it: it counts
\* only when that thread is blocked in m_waiter.wait
Notified == disp = "wait"

\* (variant: the stop flag is not reset)
StopOnStart_Kept == TRUE

\* line 422: value given to m_async_stop when the thread is (re)started
StopOnStart == FALSE

Remove(s, e) == SelectSeq(s, LAMBDA x : x # e)

\* htonl(): the four bytes of a uint32_t in network order, as they lie in
\* the memory main_protocol::write sends
htonl(n) == << (n \div 16777216) % 256, (n \div 65536) % 256, (n \div 256) % 256, n % 256 >>

\* ntohl() of four bytes received
ntohl(b) == b[1] * 16777216 + b[2] * 65536 + b[3] * 256 + b[4]

\* (variant: the header counts itself)
WriteBytes_CountsHeader(buf) == htonl(Len(buf) + HEADER_SIZE) \o buf

\* bytes main_protocol::write puts on the connection for a buffer (the
\* size is asserted to be below 2^31, so the cast to uint32_t keeps it)
WriteBytes(buf) == htonl(Len(buf)) \o buf

\* buffers handed to main_protocol::write: every short one, and a long one
Buffers == UNION { [1..n -> {0, 255}] : n \in 0..MaxLen } \cup { [i \in 1..LongLen |-> 7] }

NoRead == [n |-> -1, buf |-> <<>>]

\* ------------------------------------------------------------------- Init
InitCommon ==
    /\ streamOpen = FALSE
    /\ queueDepth = 0
    /\ callback = NoCallback
    /\ outstanding = 0
    /\ stop = FALSE
    /\ lastError = ""
    /\ frameQ = <<>>
    /\ readArmed = 0
    /\ disp = "none"
    /\ dispNotified = FALSE
    /\ dispCur = NoResult
    /\ pc = [c \in Callers |-> "idle"]
    /\ cur = [c \in Callers |-> NoFrame]
    /\ c2s = <<>>
    /\ s2c = <<>>
    /\ conn = "down"
    /\ crashed = "no"
    /\ nsends = 0
    /\ accepted = <<>>
    /\ delivered = <<>>
    /\ last = [c \in Callers |-> "none"]
    /\ faulted = FALSE
    /\ sessions = 0
    /\ waitOrder = <<>>
    /\ hsock = "closed"
    /\ hwire = <<>>
    /\ hmsgs = 0
    /\ hsent = <<>>
    /\ hgot = NoRead
    /\ hexc = "none"
    /\ hop = "none"
    /\ streamHello = NoRequest
    /\ cmdReq = NoRequest
    /\ cmdSent = NoRequest
    /\ cmdResp = NoResponse
    /\ cmdOut = "none"
    /\ cmdMsg = <<>>
    /\ execCur = [c \in Callers |-> NoResult]
    /\ cmdSocket = "open"
    /\ execRuns = {}
    /\ ctimeout = 0
    /\ cphase = "none"
    /\ cclock = 0
    /\ cerror = "none"
    /\ cresult = "none"
    /\ got = [c \in Callers |-> NoString]
    /\ gotCount = [c \in Callers |-> 0]
    /\ element = DefaultElement
    /\ propSet = NoProp
    /\ propGot = NoProp
    /\ ctx = NoCtx
    /\ drop_frames = TRUE
    /\ diff = 0
    /\ failed = FALSE
    /\ inflight = 0
    /\ ppc = "uninit"
    /\ preg = 0
    /\ cpc = "idle"
    /\ creg = 0
    /\ nframes = 0

\* one caller thread (the documented use of the API)
Init == threads = {"c1"} /\ InitCommon

\* several caller threads
InitMT == threads = Callers /\ InitCommon

Alive == crashed = "no"

Done(c, outcome) ==
    /\ pc' = [pc EXCEPT ![c] = "idle"]
    /\ cur' = [cur EXCEPT ![c] = NoFrame]
    /\ last' = [last EXCEPT ![c] = outcome]

\* ------------------------------------------------------- Client::openStream
\* (variant: the name of the model is left out)
StreamRequest_NoName(model_name, params) ==
    [op |-> "stream", version |-> NoVersion, name |-> "absent", depth |-> NoDepth,
     config |-> IF params # NoParams THEN params ELSE "absent"]

\* lines 187-189: the json object of the request: "op", "name", and
\* "config" when additional_model_parameters is not empty; the depth of the
\* frame queue is kept in m_frame_queue_depth (line 185) and is no field
StreamRequest(model_name, params) ==
    [op |-> "stream", version |-> NoVersion, name |-> model_name, depth |-> NoDepth,
     config |-> IF params # NoParams THEN params ELSE "absent"]

\* lines 182-198: the request is written on the stream socket just connected
OpenStreamModel(c, model_name, q, params) ==
    /\ Alive /\ c \in threads /\ pc[c] = "idle"
    /\ ~streamOpen /\ disp = "none"
    /\ streamOpen' = TRUE
    /\ queueDepth' = q
    /\ conn' = "up"
    /\ streamHello' = messagePrepareJson(StreamRequest(model_name, params))
    /\ last' = [last EXCEPT ![c] = "open"]
    /\ UNCHANGED <<threads, pluginVars, getVars, connVars, lifeVars, hVars, cmdVars, dispNotified, callback, outstanding, stop, lastError, frameQ, readArmed, disp, dispCur,
                   pc, cur, crashed, c2s, s2c, nsends, accepted, delivered, faulted, sessions, waitOrder>>

\* openStream() for one model, without additional parameters
OpenStream(c, q) == OpenStreamModel(c, "m1", q, NoParams)

\* ---------------------------------------------------- Client::resultObserve
\* (variant: no test of the thread)
ResultObserve_NoTest(c, cb) ==
    /\ Alive /\ c \in threads /\ pc[c] = "idle"
    /\ callback' = cb
    /\ last' = [last EXCEPT ![c] = "observe_ok"]
    /\ UNCHANGED <<threads, pluginVars, getVars, connVars, lifeVars, hVars, streamHello, cmdVars, dispNotified, streamOpen, queueDepth, outstanding, stop, lastError, frameQ, readArmed,
                   disp, dispCur, pc, cur, crashed, wireVars, nsends, accepted, delivered, faulted,
                   sessions, waitOrder>>

ResultObserve(c, cb) ==
    /\ Alive /\ c \in threads /\ pc[c] = "idle"
    /\ IF Joinable
         THEN /\ last' = [last EXCEPT ![c] = "AlreadyRunning"]
              /\ UNCHANGED callback
         ELSE /\ callback' = cb
              /\ last' = [last EXCEPT ![c] = "observe_ok"]
    /\ UNCHANGED <<threads, pluginVars, getVars, connVars, lifeVars, hVars, streamHello, cmdVars, dispNotified, streamOpen, queueDepth, outstanding, stop, lastError, frameQ, readArmed,
                   disp, dispCur, pc, cur, crashed, wireVars, nsends, accepted, delivered, faulted,
                   sessions, waitOrder>>

\* --------------------------------------------------------- Client::dataSend
\* lines 402-410, under the mutex: push the frame info, count the frame,
\* arm a header read when this is the only outstanding frame
Push(c, f) ==
    /\ frameQ' = Append(frameQ, f)
    /\ outstanding' = outstanding + 1
    /\ readArmed' = IF ArmOnSend(outstanding + 1) THEN readArmed + 1 ELSE readArmed
    /\ accepted' = Append(accepted, f)
    /\ pc' = [pc EXCEPT ![c] = "write"]
    /\ cur' = [cur EXCEPT ![c] = f]

\* (variant: no test of the callback)
Precondition_NoObserverTest ==
    IF ~streamOpen THEN "NotConnected" ELSE "ok"

\* (variant: the callback is tested before the socket)
Precondition_ObserverFirst ==
    IF callback = NoCallback THEN "NoObserver"
    ELSE IF ~streamOpen THEN "NotConnected"
    ELSE "ok"

\* lines 363-367: the two tests dataSend() makes before it takes the mutex
Precondition ==
    IF ~streamOpen THEN "NotConnected"
    ELSE IF callback = NoCallback THEN "NoObserver"
    ELSE "ok"

\* lines 363-410 up to the wait: the two precondition checks, then the
\* section under the mutex
SendEnter(c) ==
    /\ Alive /\ c \in threads /\ pc[c] = "idle"
    /\ nsends < MaxSends
    /\ IF Precondition # "ok"
         THEN /\ Done(c, Precondition)
              /\ UNCHANGED <<frameQ, outstanding, readArmed, accepted, nsends, waitOrder>>
       ELSE IF check_last_error
         THEN /\ Done(c, "send_noop")
              /\ UNCHANGED <<frameQ, outstanding, readArmed, accepted, nsends, waitOrder>>
       ELSE IF outstanding >= queueDepth /\ ~SlotOrStop
         THEN /\ pc' = [pc EXCEPT ![c] = "waiting"]
              /\ cur' = [cur EXCEPT ![c] = nsends + 1]
              /\ waitOrder' = Append(waitOrder, c)
              /\ nsends' = nsends + 1
              /\ UNCHANGED <<frameQ, outstanding, readArmed, accepted, last>>
         ELSE /\ Push(c, nsends + 1)
              /\ last' = [last EXCEPT ![c] = "running"]
              /\ nsends' = nsends + 1
              /\ UNCHANGED waitOrder
    /\ UNCHANGED <<threads, pluginVars, getVars, connVars, lifeVars, hVars, streamHello, cmdVars, dispNotified, streamOpen, queueDepth, callback, stop, lastError, disp, dispCur, crashed,
                   wireVars, delivered, faulted, sessions>>

\* the wait_for returns true: lines 398-410
SendWake(c) ==
    /\ Alive /\ c \in threads /\ pc[c] = "waiting"
    /\ SlotOrStop
    /\ waitOrder' = Remove(waitOrder, c)
    /\ IF check_last_error
         THEN /\ Done(c, "send_noop")
              /\ UNCHANGED <<frameQ, outstanding, readArmed, accepted>>
         ELSE /\ Push(c, cur[c])
              /\ last' = [last EXCEPT ![c] = "woken"]
    /\ UNCHANGED <<threads, pluginVars, getVars, connVars, lifeVars, hVars, streamHello, cmdVars, dispNotified, streamOpen, queueDepth, callback, stop, lastError, disp, dispCur, crashed,
                   wireVars, nsends, delivered, faulted, sessions>>

\* (variant: the frame is counted before the wait)
SendTimeout_Counted(c) ==
    /\ Alive /\ c \in threads /\ pc[c] = "waiting"
    /\ ~SlotOrStop
    /\ waitOrder' = Remove(waitOrder, c)
    /\ outstanding' = outstanding + 1
    /\ Done(c, "send_timeout")
    /\ UNCHANGED <<threads, pluginVars, getVars, connVars, lifeVars, hVars, streamHello, cmdVars, dispNotified, streamOpen, queueDepth, callback, stop, lastError, frameQ,
                   readArmed, disp, dispCur, crashed, wireVars, nsends, accepted, delivered, faulted,
                   sessions>>

\* the wait_for returns false after m_inference_timeout_ms: lines 384-394
SendTimeout(c) ==
    /\ Alive /\ c \in threads /\ pc[c] = "waiting"
    /\ ~SlotOrStop
    /\ waitOrder' = Remove(waitOrder, c)
    /\ Done(c, "send_timeout")
    /\ UNCHANGED <<threads, pluginVars, getVars, connVars, lifeVars, hVars, streamHello, cmdVars, dispNotified, streamOpen, queueDepth, callback, outstanding, stop, lastError, frameQ,
                   readArmed, disp, dispCur, crashed, wireVars, nsends, accepted, delivered, faulted,
                   sessions>>

\* lines 413-414: main_protocol::write of the frame, outside the mutex
SendWrite(c) ==
    /\ Alive /\ c \in threads /\ pc[c] = "write"
    /\ IF conn = "up"
         THEN /\ c2s' = Append(c2s, cur[c])
              /\ pc' = [pc EXCEPT ![c] = "thread"]
              /\ UNCHANGED <<cur, last>>
         ELSE /\ Done(c, "send_ioerr")
              /\ UNCHANGED c2s
    /\ UNCHANGED <<threads, pluginVars, getVars, connVars, lifeVars, hVars, streamHello, cmdVars, dispNotified, streamOpen, queueDepth, callback, outstanding, stop, lastError, frameQ,
                   readArmed, disp, dispCur, crashed, s2c, conn, nsends, accepted, delivered, faulted,
                   sessions, waitOrder>>

\* line 417 and lines 456-460: the joinable() test and the notify
SendThread(c) ==
    /\ Alive /\ c \in threads /\ pc[c] = "thread"
    /\ IF Joinable
         THEN /\ Done(c, "send_ok")
              /\ dispNotified' = (dispNotified \/ Notified)
         ELSE /\ pc' = [pc EXCEPT ![c] = "spawn"]
              /\ UNCHANGED <<cur, last, dispNotified>>
    /\ UNCHANGED <<threads, pluginVars, getVars, connVars, lifeVars, hVars, streamHello, cmdVars, streamOpen, queueDepth, callback, outstanding, stop, lastError, frameQ,
                   readArmed, disp, dispCur, crashed, wireVars, nsends, accepted, delivered, faulted,
                   sessions, waitOrder>>

\* lines 422-425: reset of the stop flag and of the error, thread start;
\* assigning to a joinable std::thread calls std::terminate
SendSpawn(c) ==
    /\ Alive /\ c \in threads /\ pc[c] = "spawn"
    /\ stop' = StopOnStart
    /\ lastError' = ""
    /\ IF Joinable
         THEN /\ crashed' = "terminate"
              /\ UNCHANGED <<disp, sessions>>
         ELSE /\ disp' = "loop"
              /\ sessions' = sessions + 1
              /\ UNCHANGED crashed
    /\ Done(c, "send_ok")
    /\ UNCHANGED <<threads, pluginVars, getVars, connVars, lifeVars, hVars, streamHello, cmdVars, dispNotified, streamOpen, queueDepth, callback, outstanding, frameQ, readArmed, dispCur,
                   wireVars, nsends, accepted, delivered, faulted, waitOrder>>

\* ---------------------------------------------------------- Client::dataEnd
\* lines 524-528
DrainBegin(c) ==
    /\ Alive /\ c \in threads /\ pc[c] = "idle"
    /\ stop' = TRUE
    /\ dispNotified' = (dispNotified \/ Notified)
    /\ pc' = [pc EXCEPT ![c] = "join"]
    /\ last' = [last EXCEPT ![c] = IF last[c] \in {"drain", "drain_twice"} THEN "drain_again" ELSE "running"]
    /\ UNCHANGED <<threads, pluginVars, getVars, connVars, lifeVars, hVars, streamHello, cmdVars, streamOpen, queueDepth, callback, outstanding, lastError, frameQ, readArmed,
                   disp, dispCur, cur, crashed, wireVars, nsends, accepted, delivered, faulted,
                   sessions, waitOrder>>

\* (variant: join() without the joinable() test throws when there is no thread)
DrainJoin_NoGuard(c) ==
    /\ Alive /\ c \in threads /\ pc[c] = "join"
    /\ IF Joinable
         THEN /\ disp = "done"
              /\ disp' = "none"
              /\ Done(c, IF last[c] = "drain_again" THEN "drain_twice" ELSE "drain")
         ELSE /\ Done(c, "invalid_argument")
              /\ UNCHANGED disp
    /\ UNCHANGED <<threads, pluginVars, getVars, connVars, lifeVars, hVars, streamHello, cmdVars, dispNotified, streamOpen, queueDepth, callback, outstanding, stop, lastError, frameQ,
                   readArmed, dispCur, crashed, wireVars, nsends, accepted, delivered, faulted,
                   sessions, waitOrder>>

\* lines 531-532: returns at once when the thread is not joinable, else
\* when the thread body has finished
DrainJoin(c) ==
    /\ Alive /\ c \in threads /\ pc[c] = "join"
    /\ IF Joinable
         THEN /\ disp = "done"
              /\ disp' = "none"
         ELSE UNCHANGED disp
    /\ Done(c, IF last[c] = "drain_again" THEN "drain_twice" ELSE "drain")
    /\ UNCHANGED <<threads, pluginVars, getVars, connVars, lifeVars, hVars, streamHello, cmdVars, dispNotified, streamOpen, queueDepth, callback, outstanding, stop, lastError, frameQ,
                   readArmed, dispCur, crashed, wireVars, nsends, accepted, delivered, faulted,
                   sessions, waitOrder>>

\* ------------------------------------- result receiving thread (lines 426-454)
\* line 431
DispLoop ==
    /\ Alive /\ disp = "loop"
    /\ disp' = IF LoopCond THEN "run" ELSE "done"
    /\ UNCHANGED <<threads, pluginVars, getVars, connVars, lifeVars, hVars, streamHello, cmdVars, dispNotified, streamOpen, queueDepth, callback, outstanding, stop, lastError, frameQ,
                   readArmed, dispCur, pc, cur, crashed, wireVars, histVars>>

\* run_async(): a header read completes and its handler runs
\* Client::dataReceive up to the end of the section under the mutex
DataReceive ==
    /\ Alive /\ disp = "run"
    /\ readArmed > 0 /\ conn = "up" /\ s2c # <<>>
    /\ from_msgpack(Head(s2c).body) = "ok"
    /\ frameQ # <<>>
    /\ LET r   == Head(s2c)
           err == errorCheck(r.body)
           n   == IF err # "" THEN 0 ELSE outstanding - 1
       IN  /\ s2c' = Tail(s2c)
           /\ dispCur' = [id |-> r.id, tag |-> FrontInfo(frameQ)]
           /\ frameQ' = PopInfo(frameQ)
           /\ lastError' = IF err # "" THEN err ELSE lastError
           /\ stop' = IF err # "" THEN TRUE ELSE stop
           /\ outstanding' = n
           /\ readArmed' = IF ArmOnReceive(n) THEN readArmed ELSE readArmed - 1
    /\ disp' = "callback"
    /\ UNCHANGED <<threads, pluginVars, getVars, connVars, lifeVars, hVars, streamHello, cmdVars, dispNotified, streamOpen, queueDepth, callback, pc, cur, crashed, c2s, conn, histVars>>

\* Client::dataReceive lines 505-511: the user callback, outside the mutex.
\* A callback that raises is left by its exception; with the catch( ... )
\* of line 510 the handler returns as after a normal return, without it the
\* exception leaves the handler and io_context::run and reaches the catch
\* block of the thread (lines 444-452)
DataCallback ==
    /\ Alive /\ disp = "callback"
    /\ delivered' = Append(delivered, dispCur)
    /\ dispCur' = NoResult
    /\ IF callback \in ThrowingCallbacks /\ ~CatchesCallback
         THEN /\ lastError' = "callback error"
              /\ outstanding' = 0
              /\ stop' = TRUE
              /\ disp' = "done"
         ELSE /\ disp' = "run"
              /\ UNCHANGED <<outstanding, stop, lastError>>
    /\ UNCHANGED <<threads, pluginVars, getVars, connVars, lifeVars, hVars, streamHello, cmdVars, dispNotified, streamOpen, queueDepth, callback, frameQ,
                   readArmed, pc, cur, crashed, wireVars, nsends, accepted, last, faulted, sessions,
                   waitOrder>>

\* run_async(): io_context::run returns when no operation is pending; the
\* thread then blocks in m_waiter.wait (lines 437-440)
DispRunReturn ==
    /\ Alive /\ disp = "run"
    /\ readArmed = 0
    /\ disp' = "wait"
    /\ dispNotified' = WaitCond
    /\ UNCHANGED <<threads, pluginVars, getVars, connVars, lifeVars, hVars, streamHello, cmdVars, streamOpen, queueDepth, callback, outstanding, stop, lastError, frameQ,
                   readArmed, dispCur, pc, cur, crashed, wireVars, histVars>>

\* m_waiter.wait returns (line 439): after a notification, or spuriously,
\* when its predicate holds
DispWait ==
    /\ Alive /\ disp = "wait"
    /\ WaitCond
    /\ disp' = "loop"
    /\ dispNotified' = FALSE
    /\ UNCHANGED <<threads, pluginVars, getVars, connVars, lifeVars, hVars, streamHello, cmdVars, streamOpen, queueDepth, callback, outstanding, stop, lastError, frameQ,
                   readArmed, dispCur, pc, cur, crashed, wireVars, histVars>>

\* run_async(): the pending header read fails, the handler of initiate_read
\* throws (throw_exception_if_error_is_serious), the catch block runs
DispCatch ==
    /\ Alive /\ disp = "run"
    /\ readArmed > 0 /\ conn = "reset"
    /\ readArmed' = readArmed - 1
    /\ lastError' = "system_error"
    /\ outstanding' = 0
    /\ stop' = TRUE
    /\ disp' = "done"
    /\ UNCHANGED <<threads, pluginVars, getVars, connVars, lifeVars, hVars, streamHello, cmdVars, dispNotified, streamOpen, queueDepth, callback, frameQ, dispCur, pc, cur, crashed,
                   wireVars, histVars>>

\* run_async(): a header read completes, Client::dataReceive raises at
\* line 476 (jsonDeserialize), the exception leaves the handler and
\* io_context::run, the catch block runs
DataReceiveThrow ==
    /\ Alive /\ disp = "run"
    /\ readArmed > 0 /\ conn = "up" /\ s2c # <<>>
    /\ from_msgpack(Head(s2c).body) # "ok"
    /\ s2c' = Tail(s2c)
    /\ readArmed' = readArmed - 1
    /\ lastError' = from_msgpack(Head(s2c).body)
    /\ outstanding' = 0
    /\ stop' = TRUE
    /\ disp' = "done"
    /\ UNCHANGED <<threads, pluginVars, getVars, connVars, lifeVars, hVars, streamHello, cmdVars, dispNotified, streamOpen, queueDepth, callback, frameQ, dispCur,
                   pc, cur, crashed, c2s, conn, histVars>>

\* ----------------------------------------------------------- Client::predict
\* lines 322-327: the test of the socket and the write of the frame.  The
\* synchronous call is made on a stream with no asynchronous frame in flight.
PredictWrite(c) ==
    /\ Alive /\ c \in threads /\ pc[c] = "idle"
    /\ nsends < MaxSends
    /\ IF ~streamOpen
         THEN /\ Done(c, "predict_NotConnected")
              /\ UNCHANGED <<c2s, nsends>>
       ELSE /\ outstanding = 0 /\ readArmed = 0 /\ c2s = <<>> /\ s2c = <<>>
            /\ nsends' = nsends + 1
            /\ IF conn = "up"
                 THEN /\ c2s' = Append(c2s, nsends + 1)
                      /\ pc' = [pc EXCEPT ![c] = "predict"]
                      /\ cur' = [cur EXCEPT ![c] = nsends + 1]
                      /\ last' = [last EXCEPT ![c] = "running"]
                 ELSE /\ Done(c, "predict_ioerr")
                      /\ UNCHANGED c2s
    /\ UNCHANGED <<threads, pluginVars, getVars, connVars, lifeVars, hVars, streamHello, cmdVars, dispNotified, streamOpen, queueDepth, callback, outstanding, stop,
                   lastError, frameQ, readArmed, disp, dispCur, crashed, s2c, conn, accepted, delivered,
                   faulted, sessions, waitOrder>>

\* lines 330-332: main_protocol::read returns 0 with an empty buffer when no
\* byte could be read (the failure of the header read is not examined),
\* else the payload; jsonDeserialize then decodes the buffer
PredictRead(c) ==
    /\ Alive /\ c \in threads /\ pc[c] = "predict"
    /\ \/ /\ conn = "up" /\ s2c # <<>>
          /\ s2c' = Tail(s2c)
          /\ Done(c, IF from_msgpack(Head(s2c).body) = "ok" THEN "predict_ok" ELSE "predict_parse_error")
       \/ /\ conn = "reset"
          /\ UNCHANGED s2c
          /\ Done(c, "predict_parse_error")
    /\ UNCHANGED <<threads, pluginVars, getVars, connVars, lifeVars, hVars, streamHello, cmdVars, dispNotified, streamOpen, queueDepth, callback, outstanding, stop,
                   lastError, frameQ, readArmed, disp, dispCur, crashed, c2s, conn, nsends, accepted,
                   delivered, faulted, sessions, waitOrder>>

\* ----------------------------- the executor run by a caller thread
\* A caller thread is inside run_async() on m_io_context: in the
\* socket_connect of shutdown(), or in the flush of closeStream()
InExecutor(c) == pc[c] \in {"exec", "d_flush"}

\* Client::shutdown lines 151-155: after the command, socket_connect starts
\* an asynchronous connect and calls run_async on m_io_context, the executor
\* on which the header read of the stream is queued
ShutdownConnect(c) ==
    /\ Alive /\ c \in threads /\ pc[c] = "idle"
    /\ cmdSocket = "open"
    /\ pc' = [pc EXCEPT ![c] = "exec"]
    /\ last' = [last EXCEPT ![c] = "running"]
    /\ UNCHANGED <<threads, pluginVars, getVars, connVars, lifeVars, hVars, streamHello, cmdVars, dispNotified, streamOpen, queueDepth, callback, outstanding,
                   stop, lastError, frameQ, readArmed, disp, dispCur, cur, crashed, wireVars, nsends,
                   accepted, delivered, faulted, sessions, waitOrder>>

\* io_context::run_for on the caller thread takes the completed header read:
\* the handler of initiate_read and Client::dataReceive up to the end of the
\* section under the mutex run on that thread
ExecReceive(c) ==
    /\ Alive /\ c \in threads /\ InExecutor(c)
    /\ readArmed > 0 /\ conn = "up" /\ s2c # <<>>
    /\ from_msgpack(Head(s2c).body) = "ok"
    /\ frameQ # <<>>
    /\ LET r   == Head(s2c)
           err == errorCheck(r.body)
           n   == IF err # "" THEN 0 ELSE outstanding - 1
       IN  /\ s2c' = Tail(s2c)
           /\ execCur' = [execCur EXCEPT ![c] = [id |-> r.id, tag |-> FrontInfo(frameQ)]]
           /\ frameQ' = PopInfo(frameQ)
           /\ lastError' = IF err # "" THEN err ELSE lastError
           /\ stop' = IF err # "" THEN TRUE ELSE stop
           /\ outstanding' = n
           /\ readArmed' = IF ArmOnReceive(n) THEN readArmed ELSE readArmed - 1
    /\ dispNotified' = (dispNotified \/ Notified)
    /\ pc' = [pc EXCEPT ![c] = IF pc[c] = "exec" THEN "exec_cb" ELSE "d_flush_cb"]
    /\ execRuns' = execRuns \cup {pc[c]}
    /\ UNCHANGED <<threads, pluginVars, getVars, connVars, cmdSocket, hVars, streamHello, cmdVars, streamOpen, queueDepth, callback, disp, dispCur, cur,
                   crashed, c2s, conn, histVars>>

\* Client::dataReceive lines 505-511 on the caller thread
ExecCallback(c) ==
    /\ Alive /\ c \in threads /\ pc[c] \in {"exec_cb", "d_flush_cb"}
    /\ delivered' = Append(delivered, execCur[c])
    /\ execCur' = [execCur EXCEPT ![c] = NoResult]
    /\ pc' = [pc EXCEPT ![c] = IF pc[c] = "exec_cb" THEN "exec" ELSE "d_flush"]
    /\ UNCHANGED <<threads, pluginVars, getVars, connVars, cmdSocket, execRuns, hVars, streamHello, cmdVars, dispNotified, streamOpen, queueDepth, callback, outstanding,
                   stop, lastError, frameQ, readArmed, disp, dispCur, cur, crashed, wireVars, nsends,
                   accepted, last, faulted, sessions, waitOrder>>

\* the members of the Client are destroyed after the body of the destructor:
\* both sockets are closed
MembersDestroyed ==
    /\ streamOpen' = FALSE
    /\ conn' = "down"
    /\ c2s' = <<>>
    /\ s2c' = <<>>
    /\ cmdSocket' = "closed"

\* io_context::run_for on the caller thread takes the failed header read: the
\* handler of initiate_read throws (line 352) on that thread; the exception
\* leaves run_async and shutdown(), or is swallowed by the catch of the
\* destructor (lines 139-140), which skips the rest of its body
ExecThrow(c) ==
    /\ Alive /\ c \in threads /\ InExecutor(c)
    /\ readArmed > 0 /\ conn = "reset"
    /\ readArmed' = readArmed - 1
    /\ execRuns' = execRuns \cup {pc[c]}
    /\ IF pc[c] = "exec"
         THEN /\ Done(c, "shutdown_system_error")
              /\ UNCHANGED <<streamOpen, wireVars, cmdSocket>>
         ELSE /\ pc' = [pc EXCEPT ![c] = "destroyed"]
              /\ last' = [last EXCEPT ![c] = "destroy_caught"]
              /\ MembersDestroyed
              /\ UNCHANGED cur
    /\ UNCHANGED <<threads, pluginVars, getVars, connVars, execCur, hVars, streamHello, cmdVars, dispNotified, queueDepth, callback, outstanding, stop,
                   lastError, frameQ, disp, dispCur, crashed, nsends, accepted, delivered, faulted,
                   sessions, waitOrder>>

\* socket_connect lines 136-158 and shutdown lines 156-157: run_for returns,
\* the empty packet is written and the temporary socket is closed
ShutdownReturn(c) ==
    /\ Alive /\ c \in threads /\ pc[c] = "exec"
    /\ Done(c, "shutdown")
    /\ UNCHANGED <<threads, pluginVars, getVars, connVars, lifeVars, hVars, streamHello, cmdVars, dispNotified, streamOpen, queueDepth, callback, outstanding,
                   stop, lastError, frameQ, readArmed, disp, dispCur, crashed, wireVars, nsends,
                   accepted, delivered, faulted, sessions, waitOrder>>

\* ----------------------------------------------------------- Client::~Client
\* lines 131-132: dataEnd() is called when the thread is joinable; its
\* lines 524-528 set the stop flag and notify
DestroyBegin(c) ==
    /\ Alive /\ c \in threads /\ pc[c] = "idle"
    /\ IF Joinable
         THEN /\ stop' = TRUE
              /\ dispNotified' = (dispNotified \/ Notified)
              /\ pc' = [pc EXCEPT ![c] = "d_join"]
         ELSE /\ pc' = [pc EXCEPT ![c] = "d_close"]
              /\ UNCHANGED <<stop, dispNotified>>
    /\ last' = [last EXCEPT ![c] = "running"]
    /\ UNCHANGED <<threads, pluginVars, getVars, connVars, lifeVars, hVars, streamHello, cmdVars, streamOpen, queueDepth, callback, outstanding,
                   lastError, frameQ, readArmed, disp, dispCur, cur, crashed, wireVars, nsends,
                   accepted, delivered, faulted, sessions, waitOrder>>

\* dataEnd() lines 531-532 called by the destructor
DestroyJoin(c) ==
    /\ Alive /\ c \in threads /\ pc[c] = "d_join"
    /\ disp = "done"
    /\ disp' = "none"
    /\ pc' = [pc EXCEPT ![c] = "d_close"]
    /\ UNCHANGED <<threads, pluginVars, getVars, connVars, lifeVars, hVars, streamHello, cmdVars, dispNotified, streamOpen, queueDepth, callback, outstanding,
                   stop, lastError, frameQ, readArmed, dispCur, cur, crashed, wireVars, histVars>>

\* Client::closeStream lines 205-210: on an open stream socket the empty
\* packet is queued with write_async and the caller runs the executor
CloseStreamFlush(c) ==
    /\ Alive /\ c \in threads /\ pc[c] = "d_close"
    /\ pc' = [pc EXCEPT ![c] = IF streamOpen THEN "d_flush" ELSE "d_cmd"]
    /\ UNCHANGED <<threads, pluginVars, getVars, connVars, lifeVars, hVars, streamHello, cmdVars, dispNotified, streamOpen, queueDepth, callback, outstanding,
                   stop, lastError, frameQ, readArmed, disp, dispCur, cur, crashed, wireVars, histVars>>

\* Client::closeStream lines 210-212: run_async returns and socket_close
\* closes the stream socket, which cancels a header read still pending; on
\* a broken connection the handler of write_async throws (line 308) and the
\* catch of the destructor skips the rest of its body
CloseStreamClose(c) ==
    /\ Alive /\ c \in threads /\ pc[c] = "d_flush"
    /\ readArmed' = 0
    /\ IF conn = "up"
         THEN /\ streamOpen' = FALSE
              /\ conn' = "down"
              /\ c2s' = <<>>
              /\ s2c' = <<>>
              /\ pc' = [pc EXCEPT ![c] = "d_cmd"]
              /\ UNCHANGED <<last, cmdSocket>>
         ELSE /\ pc' = [pc EXCEPT ![c] = "destroyed"]
              /\ last' = [last EXCEPT ![c] = "destroy_caught"]
              /\ MembersDestroyed
    /\ UNCHANGED <<threads, pluginVars, getVars, connVars, execCur, execRuns, hVars, streamHello, cmdVars, dispNotified, queueDepth, callback, outstanding, stop,
                   lastError, frameQ, disp, dispCur, cur, crashed, nsends, accepted, delivered, faulted,
                   sessions, waitOrder>>

\* lines 134-137: the command socket is closed and the executor stopped
DestroyEnd(c) ==
    /\ Alive /\ c \in threads /\ pc[c] = "d_cmd"
    /\ cmdSocket' = "closed"
    /\ pc' = [pc EXCEPT ![c] = "destroyed"]
    /\ last' = [last EXCEPT ![c] = "destroyed"]
    /\ UNCHANGED <<threads, pluginVars, getVars, connVars, execCur, execRuns, hVars, streamHello, cmdVars, dispNotified, streamOpen, queueDepth, callback, outstanding,
                   stop, lastError, frameQ, readArmed, disp, dispCur, cur, crashed, wireVars, nsends,
                   accepted, delivered, faulted, sessions, waitOrder>>

\* ------------------------------------------------------------- environment
\* the server answers the oldest frame it received
ServerAnswer(body) ==
    /\ Alive /\ conn = "up" /\ c2s # <<>>
    /\ s2c' = Append(s2c, [id |-> Head(c2s), body |-> body])
    /\ c2s' = Tail(c2s)
    /\ faulted' = (faulted \/ body.success = "false" \/ body = EmptyPayload)
    /\ UNCHANGED <<threads, pluginVars, getVars, connVars, lifeVars, hVars, streamHello, cmdVars, clientVars, conn, nsends, accepted, delivered, last, sessions, waitOrder>>

\* the stream connection breaks
ConnReset ==
    /\ Alive /\ conn = "up"
    /\ conn' = "reset"
    /\ c2s' = <<>>
    /\ s2c' = <<>>
    /\ faulted' = TRUE
    /\ UNCHANGED <<threads, pluginVars, getVars, connVars, lifeVars, hVars, streamHello, cmdVars, clientVars, nsends, accepted, delivered, last, sessions, waitOrder>>

DispStep ==
    \/ DispLoop
    \/ DataReceive
    \/ DataCallback
    \/ DispRunReturn
    \/ DispWait
    \/ DispCatch

Next ==
    \/ \E c \in Callers, q \in 1..MaxDepth : OpenStream(c, q)
    \/ \E c \in Callers, cb \in Callbacks \cup {NoCallback} : ResultObserve(c, cb)
    \/ \E c \in Callers : SendEnter(c)
    \/ \E c \in Callers : SendWake(c)
    \/ \E c \in Callers : SendTimeout(c)
    \/ \E c \in Callers : SendWrite(c)
    \/ \E c \in Callers : SendThread(c)
    \/ \E c \in Callers : SendSpawn(c)
    \/ \E c \in Callers : DrainBegin(c)
    \/ \E c \in Callers : DrainJoin(c)
    \/ \E c \in Callers : PredictWrite(c)
    \/ \E c \in Callers : PredictRead(c)
    \/ DispStep
    \/ DataReceiveThrow
    \/ \E body \in StreamPayloads : ServerAnswer(body)
    \/ ConnReset

Spec == Init /\ [][Next]_vars

\* Scheduling: a thread that can take a step of an operation it has started
\* eventually takes it (a bounded wait_for ends), the result receiving thread
\* runs, and the server answers the frames it has received.  A caller is free never to start
\* another operation.
CallerProgress ==
    \E c \in threads : SendWake(c) \/ SendTimeout(c) \/ SendWrite(c) \/ SendThread(c)
                          \/ SendSpawn(c) \/ DrainJoin(c)

\* the result receiving thread runs; it leaves m_waiter.wait for certain
\* only when it was notified
DispProgress ==
    \/ DispLoop
    \/ DataReceive
    \/ DataCallback
    \/ DispRunReturn
    \/ dispNotified /\ DispWait
    \/ DispCatch
    \/ DataReceiveThrow

Fairness ==
    /\ WF_vars(CallerProgress)
    /\ WF_vars(DispProgress)
    /\ WF_vars(\E body \in StreamPayloads : ServerAnswer(body))

\* The asynchronous API used with one callback: openStream, resultObserve,
\* dataSend and dataEnd, the result receiving thread and the server.
NextLive ==
    \/ \E c \in Callers, q \in 1..MaxDepth : OpenStream(c, q)
    \/ \E c \in Callers : ResultObserve(c, "cb1")
    \/ \E c \in Callers : SendEnter(c)
    \/ \E c \in Callers : SendWake(c)
    \/ \E c \in Callers : SendTimeout(c)
    \/ \E c \in Callers : SendWrite(c)
    \/ \E c \in Callers : SendThread(c)
    \/ \E c \in Callers : SendSpawn(c)
    \/ \E c \in Callers : DrainBegin(c)
    \/ \E c \in Callers : DrainJoin(c)
    \/ DispStep
    \/ DataReceiveThrow
    \/ \E body \in StreamPayloads : ServerAnswer(body)
    \/ ConnReset

LiveSpec == Init /\ [][NextLive]_vars /\ Fairness

\* Several caller threads: one of them opens the stream and installs the
\* one callback, all of them send and drain; the server answers with a
\* result or with an error message.
OkBody == [success |-> "absent", msg |-> "absent"]
ErrBody == [success |-> "false", msg |-> "x"]

NextMT ==
    \/ \E q \in 1..MaxDepth : OpenStream("c1", q)
    \/ ResultObserve("c1", "cb1")
    \/ \E c \in Callers : SendEnter(c)
    \/ \E c \in Callers : SendWake(c)
    \/ \E c \in Callers : SendTimeout(c)
    \/ \E c \in Callers : SendWrite(c)
    \/ \E c \in Callers : SendThread(c)
    \/ \E c \in Callers : SendSpawn(c)
    \/ \E c \in Callers : DrainBegin(c)
    \/ \E c \in Callers : DrainJoin(c)
    \/ DispStep
    \/ \E body \in {OkBody, ErrBody} : ServerAnswer(body)
    \/ ConnReset

SpecMT == InitMT /\ [][NextMT]_vars

\* The life of one Client used by one caller thread: the asynchronous API,
\* shutdown() called while the stream is in use, and the destructor.
NextLife ==
    \/ \E q \in 1..MaxDepth : OpenStream("c1", q)
    \/ ResultObserve("c1", "cb1")
    \/ SendEnter("c1")
    \/ SendWake("c1")
    \/ SendTimeout("c1")
    \/ SendWrite("c1")
    \/ SendThread("c1")
    \/ SendSpawn("c1")
    \/ DrainBegin("c1")
    \/ DrainJoin("c1")
    \/ ShutdownConnect("c1")
    \/ ExecReceive("c1")
    \/ ExecCallback("c1")
    \/ ExecThrow("c1")
    \/ ShutdownReturn("c1")
    \/ DestroyBegin("c1")
    \/ DestroyJoin("c1")
    \/ CloseStreamFlush("c1")
    \/ CloseStreamClose("c1")
    \/ DestroyEnd("c1")
    \/ DispStep
    \/ \E body \in {OkBody, ErrBody} : ServerAnswer(body)
    \/ ConnReset

SpecLife == Init /\ [][NextLife]_vars

TypeOK ==
    /\ outstanding \in Int
    /\ disp \in {"none", "loop", "run", "callback", "wait", "done"}
    /\ Len(frameQ) <= MaxSends

\* --------------------------------------------- framing primitives, dg_socket.h
\* socket_connect: a fresh connected socket
HConnect ==
    /\ hsock = "closed"
    /\ hsock' = "open"
    /\ hwire' = <<>> /\ hmsgs' = 0 /\ hsent' = <<>>
    /\ hgot' = NoRead
    /\ hexc' = "none"
    /\ hop' = "connect"
    /\ UNCHANGED <<threads, pluginVars, getVars, connVars, lifeVars, streamHello, cmdVars, clientVars, wireVars, histVars>>

\* main_protocol::write( socket, buffer, size ): asio::write on a closed
\* socket fails with bad_descriptor, which is thrown
HWrite(buf) ==
    /\ hmsgs < MaxMsgs
    /\ IF hsock = "open"
         THEN /\ hwire' = hwire \o WriteBytes(buf)
              /\ hmsgs' = hmsgs + 1
              /\ hsent' = Append(hsent, buf)
              /\ hexc' = "none"
         ELSE /\ hexc' = "bad_descriptor"
              /\ UNCHANGED <<hwire, hmsgs, hsent>>
    /\ hop' = "write"
    /\ UNCHANGED <<threads, pluginVars, getVars, connVars, lifeVars, streamHello, cmdVars, clientVars, wireVars, histVars, hsock, hgot>>

\* what a reader takes from the connection: the header, then as many bytes
\* as the header says (lines 184-198, and lines 348-355 with 374-375); it
\* waits until these bytes have arrived
TakeMessage ==
    LET size == ntohl(SubSeq(hwire, 1, HEADER_SIZE))
    IN  /\ Len(hwire) >= HEADER_SIZE + size
        /\ hgot' = [n |-> size, buf |-> SubSeq(hwire, HEADER_SIZE + 1, HEADER_SIZE + size)]
        /\ hwire' = SubSeq(hwire, HEADER_SIZE + size + 1, Len(hwire))
        /\ hmsgs' = hmsgs - 1
        /\ hsent' = Tail(hsent)

\* main_protocol::read on the peer socket: no byte and a closed connection
\* return 0; else the header, then as many bytes as the header says
HRead ==
    /\ hwire # <<>> \/ hsock = "closed"
    /\ IF hwire = <<>>
         THEN /\ hgot' = [n |-> 0, buf |-> <<>>]
              /\ UNCHANGED <<hwire, hmsgs, hsent>>
         ELSE TakeMessage
    /\ hexc' = "none"
    /\ hop' = "read"
    /\ UNCHANGED <<threads, pluginVars, getVars, connVars, lifeVars, streamHello, cmdVars, clientVars, wireVars, histVars, hsock>>

\* main_protocol::initiate_read and, in its handler, handle_read on the peer
\* socket, for a header that arrives
HReadAsync ==
    /\ hwire # <<>>
    /\ TakeMessage
    /\ hexc' = "none"
    /\ hop' = "read_async"
    /\ UNCHANGED <<threads, pluginVars, getVars, connVars, lifeVars, streamHello, cmdVars, clientVars, wireVars, histVars, hsock>>

\* socket_close: socket.shutdown( shutdown_both ) throws on failure, and it
\* fails with bad_descriptor on a socket that is not open; socket.close()
\* is reached only when shutdown() returned
socket_close ==
    /\ IF hsock = "open"
         THEN /\ hsock' = "closed"
              /\ hexc' = "none"
         ELSE /\ hexc' = "bad_descriptor"
              /\ UNCHANGED hsock
    /\ hop' = "close"
    /\ UNCHANGED <<threads, pluginVars, getVars, connVars, lifeVars, streamHello, cmdVars, clientVars, wireVars, histVars, hwire, hmsgs, hsent, hgot>>

NextFraming ==
    \/ HConnect
    \/ \E buf \in Buffers : HWrite(buf)
    \/ HRead
    \/ HReadAsync
    \/ socket_close

SpecFraming == Init /\ [][NextFraming]_vars

\* ------------------------------------------------ socket_connect, dg_socket.h
\* the timeout in seconds the constructor passes (line 120) and the time
\* limit in milliseconds socket_connect gives to run_async (line 136)
TimeoutSeconds(ms) == ms \div 1000
RunLimitMs(ms) == TimeoutSeconds(ms) * 1000

\* Client::Client lines 118-121 and socket_connect lines 130-136 with
\* run_async lines 96-103: the connect is started and the executor is run,
\* with a time limit when the limit is positive, else until no work is left
Construct(ms) ==
    /\ cphase \in {"none", "returned"}
    /\ ctimeout' = ms
    /\ cphase' = IF RunLimitMs(ms) > 0 THEN "run_for" ELSE "run"
    /\ cclock' = 0
    /\ cerror' = "none"
    /\ cresult' = "none"
    /\ UNCHANGED <<threads, pluginVars, getVars, streamHello, cmdVars, lifeVars, clientVars, wireVars, histVars, hVars>>

\* time passes while the caller is blocked in the executor; run_for does not
\* outlast its limit
ConnTick ==
    /\ cphase \in {"run_for", "run"}
    /\ cclock < MaxTicks
    /\ cphase = "run_for" => (cclock + 1) * TickMs <= RunLimitMs(ctimeout)
    /\ cclock' = cclock + 1
    /\ UNCHANGED <<threads, pluginVars, getVars, streamHello, cmdVars, lifeVars, clientVars, wireVars, histVars, hVars,
                   ctimeout, cphase, cerror, cresult>>

\* the connect completes, the server accepted or refused: the handler
\* (line 133) stores the result and the executor runs out of work
ConnectHandler(result) ==
    /\ cphase \in {"run_for", "run"}
    /\ cerror' = result
    /\ cphase' = "completed"
    /\ UNCHANGED <<threads, pluginVars, getVars, streamHello, cmdVars, lifeVars, clientVars, wireVars, histVars, hVars,
                   ctimeout, cclock, cresult>>

\* lines 141-144: run_for has returned at its limit with the connect
\* pending; the socket is closed, which cancels the connect
RunForTimeout ==
    /\ cphase = "run_for"
    /\ cclock * TickMs >= RunLimitMs(ctimeout)
    /\ cphase' = "cancelled"
    /\ UNCHANGED <<threads, pluginVars, getVars, streamHello, cmdVars, lifeVars, clientVars, wireVars, histVars, hVars,
                   ctimeout, cclock, cerror, cresult>>

\* line 147: the executor is run again and the handler of the cancelled
\* connect stores operation_aborted
CancelHandler ==
    /\ cphase = "cancelled"
    /\ cerror' = "operation_aborted"
    /\ cphase' = "completed"
    /\ UNCHANGED <<threads, pluginVars, getVars, streamHello, cmdVars, lifeVars, clientVars, wireVars, histVars, hVars,
                   ctimeout, cclock, cresult>>

\* lines 151-158: the error is raised, or the socket is returned
ConnectReturn ==
    /\ cphase = "completed"
    /\ cresult' = IF cerror = "success" THEN "connected" ELSE "system_error"
    /\ cphase' = "returned"
    /\ UNCHANGED <<threads, pluginVars, getVars, streamHello, cmdVars, lifeVars, clientVars, wireVars, histVars, hVars,
                   ctimeout, cclock, cerror>>

NextConnect ==
    \/ \E ms \in ConnTimeouts : Construct(ms)
    \/ ConnTick
    \/ \E result \in {"success", "connection_refused"} : ConnectHandler(result)
    \/ RunForTimeout
    \/ CancelHandler
    \/ ConnectReturn

SpecConnect == Init /\ [][NextConnect]_vars

\* ------------------------------------------- getters of the Client, dg_client.h
\* Client::lastError lines 129-132: the copy of m_last_error begins; no
\* mutex is taken
GetErrorBegin(c) ==
    /\ Alive /\ c \in threads /\ pc[c] = "idle"
    /\ pc' = [pc EXCEPT ![c] = "get"]
    /\ got' = [got EXCEPT ![c] = lastError]
    /\ UNCHANGED <<threads, pluginVars, connVars, lifeVars, hVars, streamHello, cmdVars, gotCount, dispNotified, streamOpen,
                   queueDepth, callback, outstanding, stop, lastError, frameQ, readArmed, disp, dispCur,
                   cur, crashed, wireVars, histVars>>

\* the copy ends.  When m_last_error was assigned during the copy the two
\* accesses of the std::string were a data race: the caller is given the
\* old string, the new one or a mix of the two, or the process dies
GetErrorEnd(c) ==
    /\ Alive /\ c \in threads /\ pc[c] = "get"
    /\ pc' = [pc EXCEPT ![c] = "idle"]
    /\ IF lastError = got[c]
         THEN UNCHANGED <<got, crashed>>
         ELSE \/ /\ \E v \in {got[c], lastError, Torn} : got' = [got EXCEPT ![c] = v]
                 /\ UNCHANGED crashed
              \/ /\ crashed' = "segv"
                 /\ UNCHANGED got
    /\ UNCHANGED <<threads, pluginVars, connVars, lifeVars, hVars, streamHello, cmdVars, gotCount, dispNotified, streamOpen,
                   queueDepth, callback, outstanding, stop, lastError, frameQ, readArmed, disp, dispCur,
                   cur, wireVars, histVars>>

\* Client::outstandingResultsCountGet lines 122-125: one load of the
\* std::atomic_int
GetCount(c) ==
    /\ Alive /\ c \in threads /\ pc[c] = "idle"
    /\ gotCount' = [gotCount EXCEPT ![c] = outstanding]
    /\ UNCHANGED <<threads, pluginVars, connVars, lifeVars, hVars, streamHello, cmdVars, got, clientVars, wireVars, histVars>>

\* One thread uses the asynchronous API, another one calls the getters.
NextGet ==
    \/ \E q \in 1..MaxDepth : OpenStream("c1", q)
    \/ ResultObserve("c1", "cb1")
    \/ SendEnter("c1")
    \/ SendWake("c1")
    \/ SendTimeout("c1")
    \/ SendWrite("c1")
    \/ SendThread("c1")
    \/ SendSpawn("c1")
    \/ DrainBegin("c1")
    \/ DrainJoin("c1")
    \/ GetErrorBegin("c2")
    \/ GetErrorEnd("c2")
    \/ GetCount("c2")
    \/ DispStep
    \/ \E body \in {OkBody, ErrBody} : ServerAnswer(body)
    \/ ConnReset

SpecGet == InitMT /\ [][NextGet]_vars

\* ------------------------------------ dgaccelerator element, gstdgaccelerator.cpp
\* gst_dgaccelerator_set_property: a string that does not fit in
\* NAME_BUFFER characters with its terminator is refused with a warning and
\* the field keeps its value
set_property(e, prop, value) ==
    IF prop \in StringProps /\ value.len + 1 > NAME_BUFFER
      THEN e
      ELSE [e EXCEPT ![prop] = value]

\* gst_dgaccelerator_get_property
get_property(e, prop) == e[prop]

\* g_object_set_property on the element
SetProperty(prop, value) ==
    /\ propSet = NoProp \/ propGot # NoProp
    /\ element' = set_property(element, prop, value)
    /\ propSet' = [prop |-> prop, value |-> value]
    /\ propGot' = NoProp
    /\ UNCHANGED <<threads, connVars, getVars, lifeVars, hVars, streamHello, cmdVars, clientVars, wireVars, histVars, ctx, accVars>>

\* g_object_get_property of the property just set
GetProperty ==
    /\ propSet # NoProp /\ propGot = NoProp
    /\ propGot' = [prop |-> propSet.prop, value |-> get_property(element, propSet.prop)]
    /\ UNCHANGED <<threads, connVars, getVars, lifeVars, hVars, streamHello, cmdVars, clientVars, wireVars, histVars,
                   element, propSet, ctx, accVars>>

NextProps ==
    \/ \E prop \in Props : \E value \in PropValues(prop) : SetProperty(prop, value)
    \/ GetProperty

SpecProps == Init /\ [][NextProps]_vars

\* ------------------------------------- DgAcceleratorCtxInit, dgaccelerator_lib.cpp
toupper(ch) == IF ch = "a" THEN "A" ELSE ch

\* stristr of dg_model_api.cpp: std::search with a comparison that ignores
\* case, found when the result is not str.end()
stristr(str, substr) ==
    IF Len(substr) = 0
      THEN Len(str) > 0
      ELSE \E i \in 1..(Len(str) - Len(substr) + 1) :
              \A j \in 1..Len(substr) : toupper(str[i + j - 1]) = toupper(substr[j])

\* DG::modelFind with a query that gives the model name only: the first
\* model of the zoo whose name contains the name asked for
RECURSIVE modelFind(_, _)
modelFind(zoo, model_name) ==
    IF zoo = <<>> THEN NoModel
    ELSE IF stristr(Head(zoo).name, model_name) THEN Head(zoo)
    ELSE modelFind(Tail(zoo), model_name)

\* lines 187: a model name without '/' asks for a local model
IsLocalName(model_name) == \A i \in 1..Len(model_name) : model_name[i] # "/"

\* lines 187-225: the validation; "ok" or the runtime_error raised
Validate(model_name, zoo, cloud_token, processing_width, processing_height) ==
    IF IsLocalName(model_name)
      THEN LET model_id == modelFind(zoo, model_name)
           IN  IF model_id.name = <<>> THEN "is not found in model zoo"
               ELSE IF processing_height # model_id.H THEN "processing-height does not match model"
               ELSE IF processing_width # model_id.W THEN "processing-width does not match model"
               ELSE "ok"
      ELSE IF Len(cloud_token) = 0 THEN "No cloud token provided" ELSE "ok"

\* DgAcceleratorCtxInit for an element with the given properties, on a
\* server with the given zoo: the AIModelAsync (a Client and its stream)
\* is made at line 261, after the validation.  The element calls it once,
\* when it starts
DgAcceleratorCtxInit(model_name, zoo, cloud_token, processing_width, processing_height) ==
    /\ ctx = NoCtx
    /\ ctx' = [model_name |-> model_name, zoo |-> zoo, cloud_token |-> cloud_token,
               processing_width |-> processing_width, processing_height |-> processing_height,
               out |-> Validate(model_name, zoo, cloud_token, processing_width, processing_height),
               model |-> Validate(model_name, zoo, cloud_token, processing_width, processing_height) = "ok"]
    /\ UNCHANGED <<threads, connVars, getVars, lifeVars, hVars, streamHello, cmdVars, clientVars, wireVars, histVars,
                   element, propSet, propGot, accVars>>

NextCtx ==
    \E model_name \in ModelNameStrings, zoo \in Zoos, cloud_token \in CloudTokens, w \in Dims, h \in Dims :
        DgAcceleratorCtxInit(model_name, zoo, cloud_token, w, h)

SpecCtx == Init /\ [][NextCtx]_vars

\* ------------------------------------- DgAcceleratorProcess, dgaccelerator_lib.cpp
\* The element calls DgAcceleratorProcess on the pipeline thread; the
\* callback given to AIModelAsync runs on the result receiving thread of
\* the client.  diff is a plain size_t that both threads change with ++ and
\* -- and no lock: each of them is a load followed by a store.

\* ctx->diff > FRAME_DIFF_LIMIT, an unsigned comparison
AboveLimit(d) == d < 0 \/ d > FRAME_DIFF_LIMIT

Others == <<threads, connVars, getVars, lifeVars, hVars, streamHello, cmdVars, clientVars, wireVars,
            histVars, element, propSet, propGot, ctx>>

\* DgAcceleratorCtxInit line 116 and the calloc of line 115
AccStart(drop) ==
    /\ ppc = "uninit"
    /\ drop_frames' = drop
    /\ ppc' = "idle"
    /\ UNCHANGED <<Others, diff, failed, inflight, preg, cpc, creg, nframes>>

\* line 397, ctx->diff++: the load
ProcessBegin ==
    /\ ppc = "idle" /\ nframes < MaxFrames
    /\ nframes' = nframes + 1
    /\ preg' = diff
    /\ ppc' = "inc"
    /\ UNCHANGED <<Others, drop_frames, diff, failed, inflight, cpc, creg>>

\* line 397, ctx->diff++: the store
ProcessIncrement ==
    /\ ppc = "inc"
    /\ diff' = preg + 1
    /\ ppc' = "check"
    /\ UNCHANGED <<Others, drop_frames, failed, inflight, preg, cpc, creg, nframes>>

\* lines 404-428: the runtime_error when the context has failed, the skip
\* of the frame when too many wait, else the frame is given to predict()
ProcessDecide ==
    /\ ppc = "check"
    /\ IF failed
         THEN /\ ppc' = "failed"
              /\ UNCHANGED inflight
       ELSE IF drop_frames /\ AboveLimit(diff)
         THEN /\ ppc' = "skip"
              /\ UNCHANGED inflight
         ELSE /\ inflight' = inflight + 1
              /\ ppc' = "idle"
    /\ UNCHANGED <<Others, drop_frames, diff, failed, preg, cpc, creg, nframes>>

\* line 437, ctx->diff-- of a skipped frame: the load
ProcessSkipLoad ==
    /\ ppc = "skip"
    /\ preg' = diff
    /\ ppc' = "skip_store"
    /\ UNCHANGED <<Others, drop_frames, diff, failed, inflight, cpc, creg, nframes>>

\* line 437: the store
ProcessSkipStore ==
    /\ ppc = "skip_store"
    /\ diff' = preg - 1
    /\ ppc' = "idle"
    /\ UNCHANGED <<Others, drop_frames, failed, inflight, preg, cpc, creg, nframes>>

\* lines 227-254: the callback is called with the result of a frame; a
\* result that reports an error sets ctx->failed
CallbackBegin(err) ==
    /\ cpc = "idle" /\ inflight > 0
    /\ failed' = (failed \/ err)
    /\ cpc' = "dec"
    /\ UNCHANGED <<Others, drop_frames, diff, inflight, ppc, preg, creg, nframes>>

\* line 257, ctx->diff--: the load
CallbackLoad ==
    /\ cpc = "dec"
    /\ creg' = diff
    /\ cpc' = "dec_store"
    /\ UNCHANGED <<Others, drop_frames, diff, failed, inflight, ppc, preg, nframes>>

\* line 257: the store, and the return of the callback
CallbackStore ==
    /\ cpc = "dec_store"
    /\ diff' = creg - 1
    /\ inflight' = inflight - 1
    /\ cpc' = "idle"
    /\ UNCHANGED <<Others, drop_frames, failed, ppc, preg, creg, nframes>>

NextProcess ==
    \/ \E drop \in BOOLEAN : AccStart(drop)
    \/ ProcessBegin
    \/ ProcessIncrement
    \/ ProcessDecide
    \/ ProcessSkipLoad
    \/ ProcessSkipStore
    \/ \E err \in BOOLEAN : CallbackBegin(err)
    \/ CallbackLoad
    \/ CallbackStore

SpecProcess == Init /\ [][NextProcess]_vars

\* ------------------------------------------------ command channel, dg_client.cpp
\* (variant: the message of the response is not used)
errorCheckThrow_NoMsg(response, source) ==
    IF response.success = "false"
      THEN [out |-> "ErrOperationFailed", msg |-> <<source, ": ", "unspecified error">>]
      ELSE [out |-> "ok", msg |-> <<>>]

\* DG::JsonHelper::errorCheck( response, source ) with do_throw = true: the
\* error it raises and its message, "ok" when it returns
errorCheckThrow(response, source) ==
    IF response.success = "false"
      THEN [out |-> "ErrOperationFailed",
            msg |-> <<source, ": ", IF response.msg # "absent" THEN response.msg ELSE "unspecified error">>]
      ELSE [out |-> "ok", msg |-> <<>>]

\* Client::transmitCommand lines 554-570: what the call does with the
\* response it has read
CommandResult(source, response) ==
    IF response.kind = "ioerror"
      THEN [out |-> "system_error", msg |-> <<"system_error">>]
    ELSE IF response.kind = "malformed"
      THEN [out |-> "parse_error", msg |-> <<"parse error">>]
    ELSE IF response.kind # "object"
      THEN [out |-> "ErrNotSupportedVersion", msg |-> <<"Response from server is incorrect">>]
    ELSE IF response.version = NoVersion
      THEN [out |-> "ErrNotSupportedVersion", msg |-> <<"protocol version data is missing">>]
    ELSE errorCheckThrow(response, source)

\* Client::transmitCommand( source, request, response )
transmitCommand(source, request, response) ==
    /\ cmdReq' = request
    /\ cmdSent' = messagePrepareJson(request)
    /\ cmdResp' = response

\* the public commands that let the error of transmitCommand through
\* (systemInfo, modelZooManage, ...)
Command(op, response) ==
    /\ op # "sleep"
    /\ transmitCommand(SourceOf(op), [op |-> op, version |-> NoVersion], response)
    /\ cmdOut' = CommandResult(SourceOf(op), response).out
    /\ cmdMsg' = CommandResult(SourceOf(op), response).msg
    /\ UNCHANGED <<threads, pluginVars, getVars, connVars, lifeVars, hVars, streamHello, clientVars, wireVars, histVars>>

\* (variant: the error of transmitCommand leaves ping)
ping_NoCatch(response) ==
    /\ transmitCommand("ping", [op |-> "sleep", version |-> NoVersion], response)
    /\ cmdOut' = IF CommandResult("ping", response).out = "ok"
                   THEN "true" ELSE CommandResult("ping", response).out
    /\ cmdMsg' = <<>>
    /\ UNCHANGED <<threads, pluginVars, getVars, connVars, lifeVars, hVars, streamHello, clientVars, wireVars, histVars>>

\* Client::ping
ping(response) ==
    /\ transmitCommand("ping", [op |-> "sleep", version |-> NoVersion], response)
    /\ cmdOut' = IF CommandResult("ping", response).out = "ok" THEN "true" ELSE "false"
    /\ cmdMsg' = <<>>
    /\ UNCHANGED <<threads, pluginVars, getVars, connVars, lifeVars, hVars, streamHello, clientVars, wireVars, histVars>>

\* DG::messagePrepareJson applied to a json object
MessagePrepare(in) ==
    /\ cmdReq' = in
    /\ cmdSent' = messagePrepareJson(in)
    /\ cmdResp' = NoResponse
    /\ cmdOut' = "prepared"
    /\ cmdMsg' = <<>>
    /\ UNCHANGED <<threads, pluginVars, getVars, connVars, lifeVars, hVars, streamHello, clientVars, wireVars, histVars>>

NextCommand ==
    \/ \E op \in Ops, response \in Responses : Command(op, response)
    \/ \E response \in Responses : ping(response)
    \/ \E in \in Requests : MessagePrepare(in)
    \/ \E c \in Callers, model_name \in ModelNames, q \in 1..MaxDepth, params \in ModelParams :
          OpenStreamModel(c, model_name, q, params)

SpecCommand == Init /\ [][NextCommand]_vars

\* ===================================================================== claims
IdsOf(seq) == {seq[i].id : i \in 1..Len(seq)}
SetOf(seq) == {seq[i] : i \in 1..Len(seq)}

\* caller c starts a dataSend() in this step
SendCalled(c) ==
    /\ pc[c] = "idle"
    /\ \/ pc'[c] \in {"write", "waiting"}
       \/ last'[c] # last[c] /\ last'[c] \in {"NotConnected", "NoObserver", "send_noop"}

\* dataEnd() was the last operation of caller c and has returned
Drained(c) == pc[c] = "idle" /\ last[c] \in {"drain", "drain_twice"}

\* caller c, blocked on a full queue, leaves the wait in this step and sends
Proceeds(c) == pc[c] = "waiting" /\ pc'[c] = "write"

\* C1: for every queue depth Q >= 1 and every interleaving of send() calls
\* of one or more caller threads, drain() calls and dispatcher steps,
\* OutstandingCount never exceeds Q.
C1_OutstandingWithinDepth == streamOpen => outstanding <= queueDepth

C3_FifoCorrelation ==
    /\ Len(delivered) <= Len(accepted)
    /\ \A k \in 1..Len(delivered) :
          delivered[k].id = accepted[k] /\ delivered[k].tag = accepted[k]

\* three results delivered, the first one before the last frame was sent
C3_Witness ==
    /\ Len(delivered) = MaxSends
    /\ ~faulted
    /\ sessions = 1

\* C4: when the server answers every frame and the connection stays up,
\* every frame accepted by send() is eventually passed to the callback,
\* exactly once, and OutstandingCount eventually returns to 0.
C4_EveryFrameDelivered ==
    /\ \A k \in 1..MaxSends :
          (k \in SetOf(accepted)) ~> (faulted \/ k \in IdsOf(delivered))
    /\ (outstanding > 0) ~> (faulted \/ outstanding = 0)
    /\ [](\A i, j \in 1..Len(delivered) : delivered[i].id = delivered[j].id => i = j)

\* every frame was accepted and delivered, the count is back to 0
C4_Witness ==
    /\ Len(accepted) = MaxSends /\ Len(delivered) = MaxSends
    /\ outstanding = 0 /\ ~faulted

\* the result receiving thread attributes an error response in this step
ErrorAttributed ==
    /\ disp = "run" /\ disp' = "callback"
    /\ errorCheck(Head(s2c).body) # ""

\* C5: attributing a response that carries a server error sets stopped,
\* records the message, zeroes OutstandingCount and arms no header read in
\* one step; a send() issued afterwards returns without pushing frame
\* info, counting the frame or writing.
C5_FailFastLatch ==
    [][/\ ErrorAttributed
          => /\ stop' /\ outstanding' = 0 /\ readArmed' = 0
             /\ lastError' = errorCheck(Head(s2c).body) /\ lastError' # ""
       /\ \A c \in Callers :
            SendCalled(c) /\ lastError # ""
              => /\ pc'[c] = "idle"
                 /\ UNCHANGED <<frameQ, outstanding, readArmed, c2s, accepted, stop, lastError>>]_vars

\* an error was latched while frames were in flight and a later send()
\* returned without sending
C5_Witness ==
    /\ lastError \in {"x", "unspecified error"}
    /\ stop /\ outstanding = 0 /\ Len(frameQ) > 0
    /\ last["c1"] = "send_noop"

\* C6: once an error has latched, drain() followed by send() restarts the
\* pipeline: a send() is a no-op only as long as the thread of the failed
\* session has not been joined by drain().
C6_SendAfterDrainRestarts ==
    \A c \in threads : pc[c] = "idle" /\ last[c] = "send_noop" => Joinable

\* caller c is in the send() that follows a drain() of a stream without error
InRestart(c) ==
    /\ pc[c] \in {"write", "thread", "spawn"}
    /\ disp = "none" /\ stop /\ lastError = "" /\ conn = "up"

\* C7: after drain() returned on a stream that had no error, the next
\* send() is accepted; when it returns a new thread is running, stopped
\* is cleared and lastError is empty; its result reaches the callback.
C7_RestartAfterDrain ==
    /\ [][\A c \in Callers :
            /\ SendCalled(c) /\ Drained(c) /\ ~faulted
                 /\ streamOpen /\ callback # NoCallback
                 => pc'[c] = "write" /\ InRestart(c)'
            /\ InRestart(c) /\ pc'[c] = "idle"
                 => /\ disp' = "loop" /\ ~stop' /\ lastError' = ""
                    /\ last'[c] = "send_ok" /\ sessions' = sessions + 1]_vars
    /\ \A k \in 1..MaxSends :
          (\E c \in Callers : InRestart(c) /\ cur[c] = k) ~> (faulted \/ k \in IdsOf(delivered))

\* a second session was started by a send() after a drain() and the result
\* of its frame has been delivered
C7_Witness ==
    /\ sessions = 2 /\ ~faulted
    /\ last["c1"] = "send_ok" /\ pc["c1"] = "idle"
    /\ Len(delivered) = Len(accepted) /\ Len(accepted) >= 2
    /\ ~stop /\ lastError = ""

\* C8: when drain() has returned on a stream on which no error occurred
\* the thread is not running, OutstandingCount is 0, the frame info queue
\* is empty and every accepted frame has been passed to the callback.
C8_DrainWaitsForResults ==
    \A c \in threads :
        Drained(c) /\ ~faulted
          => /\ disp = "none"
             /\ outstanding = 0
             /\ frameQ = <<>>
             /\ readArmed = 0
             /\ IdsOf(delivered) = SetOf(accepted)

\* drain() returned after two frames were accepted
C8_Witness ==
    /\ Drained("c1") /\ ~faulted
    /\ Len(accepted) >= 2 /\ sessions = 1

\* C9: a drain() called right after a drain() does not block, does not
\* throw and leaves OutstandingCount, the frame info queue, lastError and
\* stopped as the first call left them.
C9_DrainIdempotent ==
    /\ [](\A c \in threads : last[c] = "drain_again" => ~Joinable)
    /\ [][\A c \in Callers :
            \/ Drained(c) /\ pc'[c] = "join"
            \/ last[c] = "drain_again" /\ pc'[c] = "idle"
            => /\ UNCHANGED <<outstanding, frameQ, lastError, stop, disp>>
               /\ last'[c] \in {"drain_again", "drain_twice"}]_vars

\* a second drain() has returned on a session stopped by an error
C9_Witness ==
    /\ pc["c1"] = "idle" /\ last["c1"] = "drain_twice"
    /\ lastError # "" /\ frameQ # <<>>

\* C10: closing a connection that is already closed raises no error and
\* leaves it closed, for socket_close as for the stream close of the client.
C10_CloseIdempotent ==
    [][hop = "close" /\ hop' = "close" => hexc' = "none" /\ hsock' = "closed"]_hVars

\* C11: a send() blocked on a full queue does not stay blocked: it leaves
\* the wait, and when it leaves it while the queue is still full and no stop
\* was requested it raises the timeout error, leaving OutstandingCount, the
\* frame info queue, stopped, lastError and the socket as they were.
C11_TimeoutLeavesState ==
    /\ \A c \in Callers : (pc[c] = "waiting") ~> (pc[c] # "waiting")
    /\ [][\A c \in Callers :
            pc[c] = "waiting" /\ pc'[c] # "waiting" /\ outstanding >= queueDepth /\ ~stop
              => /\ pc'[c] = "idle" /\ last'[c] = "send_timeout"
                 /\ UNCHANGED <<outstanding, frameQ, stop, lastError, c2s, readArmed, accepted>>]_vars

\* a send() timed out on a full queue; the frame sent before is still outstanding
C11_Witness ==
    /\ pc["c1"] = "idle" /\ last["c1"] = "send_timeout"
    /\ outstanding = queueDepth /\ Len(frameQ) = queueDepth
    /\ ~stop /\ lastError = ""

\* C12: when the stream connection fails while frames are outstanding the
\* session eventually stops cleanly: stopped is set, OutstandingCount is 0,
\* lastError is non-empty and the result receiving thread has left its
\* loop; no send() stays blocked and no drain() stays in join().
C12_TransportFailureStops ==
    /\ (conn = "reset" /\ outstanding > 0)
          ~> (stop /\ outstanding = 0 /\ lastError # "" /\ disp \in {"none", "done"})
    /\ \A c \in Callers : (pc[c] \in {"waiting", "join"}) ~> (pc[c] = "idle")

\* a command that raises its error to the caller has read a json object
CommandAnswered == cmdOut \notin {"none", "prepared"} /\ cmdResp.kind = "object"

SupportedVersion(v) == v >= MIN_COMPATIBLE_PROTOCOL_VERSION /\ v <= CURRENT_PROTOCOL_VERSION

Contains(message, text) == \E i \in 1..Len(message) : message[i] = text

\* C13: a command whose response object has no protocol version field, or
\* a version outside MIN_COMPATIBLE_PROTOCOL_VERSION..CURRENT_PROTOCOL_VERSION,
\* fails with the protocol version error (ping reports false); it is never
\* returned as a success.
C13_VersionRangeChecked ==
    CommandAnswered /\ ~SupportedVersion(cmdResp.version)
      => cmdOut \in {"ErrNotSupportedVersion", "false"}

\* C14 as stated: a response object with success = false makes the command
\* raise the operation-failed error, with the msg of the response in its
\* message, or the default text when msg is absent.
C14_ErrorResponseRaises ==
    CommandAnswered /\ cmdReq.op # "sleep" /\ cmdResp.success = "false"
      => /\ cmdOut = "ErrOperationFailed"
         /\ Contains(cmdMsg, IF cmdResp.msg # "absent" THEN cmdResp.msg ELSE "unspecified error")

\* C14 as amended: a response object that carries the protocol version
\* field and success = false makes the command raise the operation-failed
\* error, with the msg of the response in its message, or the default text
\* when msg is absent; without the version field the protocol version
\* error is raised instead.
C14_VersionedErrorResponseRaises ==
    CommandAnswered /\ cmdReq.op # "sleep" /\ cmdResp.success = "false"
      => IF cmdResp.version # NoVersion
           THEN /\ cmdOut = "ErrOperationFailed"
                /\ Contains(cmdMsg, IF cmdResp.msg # "absent" THEN cmdResp.msg ELSE "unspecified error")
           ELSE cmdOut = "ErrNotSupportedVersion"

\* the server answered {"VERSION": 4, "success": false, "msg": "x"} and the
\* command raised the operation-failed error with "x" in its message
C14_Witness ==
    /\ cmdReq.op = "system_info"
    /\ cmdResp = [kind |-> "object", version |-> CURRENT_PROTOCOL_VERSION, success |-> "false", msg |-> "x"]
    /\ cmdOut = "ErrOperationFailed" /\ Contains(cmdMsg, "x")

\* C15: every json object that goes out through messagePrepare, a command
\* request or the control message of openStream, carries the version field
\* with the value CURRENT_PROTOCOL_VERSION, whatever the object handed in.
C15_VersionStamped ==
    /\ cmdOut # "none" => cmdSent.version = CURRENT_PROTOCOL_VERSION
    /\ streamOpen => streamHello.version = CURRENT_PROTOCOL_VERSION

\* C16: a send() on an open stream with no callback installed raises the
\* no-observer error and changes nothing: OutstandingCount, the frame info
\* queue, stopped, lastError, the armed reads, the socket and the thread.
C16_NoObserverNoEffect ==
    [][\A c \in Callers :
         SendCalled(c) /\ streamOpen /\ callback = NoCallback
           => /\ pc'[c] = "idle" /\ last'[c] = "NoObserver"
              /\ UNCHANGED <<outstanding, frameQ, stop, lastError, readArmed, c2s, disp, accepted,
                             sessions>>]_vars

\* a send() failed for want of a callback on an open stream
C16_Witness ==
    /\ streamOpen /\ callback = NoCallback
    /\ pc["c1"] = "idle" /\ last["c1"] = "NoObserver"

\* caller c calls resultObserve() in this step
ObserveCalled(c) ==
    /\ pc[c] = "idle" /\ pc'[c] = "idle"
    /\ last'[c] \in {"AlreadyRunning", "observe_ok"}
    /\ last'[c] # last[c] \/ callback' # callback

\* C17: resultObserve() raises the already-running error and keeps the
\* callback exactly when the thread is joinable; else it succeeds, and the
\* callback changes in no other way.  Before the first send and after a
\* drain() has returned the thread is not joinable, and every callback can
\* then be installed.
C17_ObserveBetweenSessions ==
    /\ [][\A c \in Callers :
            ObserveCalled(c)
              => IF disp # "none"
                   THEN last'[c] = "AlreadyRunning" /\ callback' = callback
                   ELSE last'[c] = "observe_ok"]_vars
    /\ [][callback' # callback => disp = "none" /\ \E c \in Callers : ObserveCalled(c)]_vars
    /\ [](\A c \in threads :
             pc[c] = "idle" /\ (sessions = 0 \/ Drained(c))
               => \A cb \in Callbacks :
                    ENABLED (ResultObserve(c, cb) /\ callback' = cb /\ last'[c] = "observe_ok"))

\* resultObserve() was refused during the second session of a client and
\* the callback installed before is still in place
C17_Witness ==
    /\ sessions = 2 /\ disp # "none"
    /\ last["c1"] = "AlreadyRunning"
    /\ callback # NoCallback

\* caller c calls predict() in this step
PredictCalled(c) ==
    /\ pc[c] = "idle"
    /\ \/ pc'[c] = "predict"
       \/ last'[c] # last[c] /\ last'[c] \in {"predict_NotConnected", "predict_ioerr"}

\* C18: on a client whose stream is not open predict() and send() raise the
\* not-connected error, write nothing and leave OutstandingCount and the
\* frame info queue alone; send() raises it also when no callback is
\* installed.
C18_NotConnectedFirst ==
    [][\A c \in Callers :
         /\ SendCalled(c) /\ ~streamOpen
              => /\ pc'[c] = "idle" /\ last'[c] = "NotConnected"
                 /\ UNCHANGED <<outstanding, frameQ, c2s, readArmed, stop, lastError, disp>>
         /\ PredictCalled(c) /\ ~streamOpen
              => /\ pc'[c] = "idle" /\ last'[c] = "predict_NotConnected"
                 /\ UNCHANGED <<outstanding, frameQ, c2s, readArmed, stop, lastError, disp>>]_vars

\* a send() with neither a stream nor a callback raised the not-connected error
C18_Witness ==
    /\ ~streamOpen /\ callback = NoCallback
    /\ pc["c1"] = "idle" /\ last["c1"] = "NotConnected"
    /\ c2s = <<>> /\ outstanding = 0

\* a payload of length 0 is taken from the stream connection in this step
EmptyPayloadRead ==
    /\ conn = "up" /\ conn' = "up"
    /\ s2c # <<>> /\ s2c' = Tail(s2c)
    /\ Head(s2c).body = EmptyPayload

\* C19: a payload of length 0 read from the stream is no error: the result
\* receiving thread does not set lastError, and a predict() that reads it
\* returns without raising.
C19_EmptyPayloadGraceful ==
    [][EmptyPayloadRead
         => /\ lastError' = lastError
            /\ \A c \in Callers : pc[c] = "predict" => last'[c] = "predict_ok"]_vars

\* the length n as four bytes, most significant first
BigEndian(n) == [i \in 1..HEADER_SIZE |-> (n \div (256 ^ (HEADER_SIZE - i))) % 256]

\* C20: write(b) puts on the connection four bytes that are the length of
\* b, most significant first, followed by b; a read on the other side
\* returns the oldest buffer written and not yet read, unchanged, with its
\* length, and consumes exactly 4 + len(b) bytes, without raising; a
\* buffer of length 0 is read back as size 0.
C20_FramingRoundTrip ==
    [][/\ Len(hsent') = Len(hsent) + 1
          => LET b == hsent'[Len(hsent')]
             IN  hwire' = hwire \o BigEndian(Len(b)) \o b
       /\ hop' \in {"read", "read_async"} /\ hsent # <<>>
          => /\ hgot'.buf = Head(hsent) /\ hgot'.n = Len(Head(hsent))
             /\ Len(hwire') = Len(hwire) - (HEADER_SIZE + Len(Head(hsent)))
             /\ hsent' = Tail(hsent)
             /\ hexc' = "none"]_hVars

\* the long buffer was read back while a later message is still on the
\* connection
C20_Witness ==
    /\ hop \in {"read", "read_async"}
    /\ hgot.n = LongLen /\ hgot.buf \in Buffers
    /\ hsent # <<>> /\ Len(hwire) >= HEADER_SIZE

\* the destructor run by caller c has reached the release of the sockets
Releasing(c) == pc[c] \in {"d_close", "d_flush", "d_flush_cb", "d_cmd", "destroyed"}

\* C21: destruction drains before it releases the sockets: the result
\* receiving thread has been joined when the destructor reaches closeStream
\* and when either socket is closed, and from then on no handler of a header
\* read and no user callback runs.
C21_DrainBeforeRelease ==
    /\ [](\A c \in Callers : Releasing(c) => disp = "none")
    /\ [][(streamOpen /\ ~streamOpen') \/ (cmdSocket = "open" /\ cmdSocket' = "closed")
            => disp = "none"]_vars
    /\ [](\A c \in Callers : Releasing(c) => "d_flush" \notin execRuns /\ pc[c] # "d_flush_cb")
    /\ [][(\E c \in Callers : Releasing(c)) => delivered' = delivered]_vars

\* C22: the user callback and Client::dataReceive run on the result
\* receiving thread only, and the callback never runs twice at a time: no
\* caller thread that runs the executor is ever inside dataReceive or the
\* callback.
C22_CallbackOnDispatcherOnly ==
    /\ \A c \in Callers : pc[c] \notin {"exec_cb", "d_flush_cb"}
    /\ execCur = [c \in Callers |-> NoResult]

\* C23: a connect attempt ends within the configured connection timeout:
\* the caller is not blocked in the executor at a time later than
\* connection_timeout_ms, for every positive value of it; when the limit
\* is reached the connect is cancelled and an error is raised.
C23_ConnectWithinTimeout ==
    /\ [](cphase \in {"run_for", "run"} => cclock * TickMs <= ctimeout)
    /\ [](cphase = "returned" /\ cerror = "operation_aborted" => cresult = "system_error")

\* C24 as stated: openStream() writes one control message on the stream
\* socket it has just connected, before any frame, and reads no response;
\* the message is a "stream" request that carries the model name, the
\* depth of the frame queue and the additional parameters.
C24_StreamRequestWithDepth ==
    [][/\ \A c \in Callers, model_name \in ModelNames, q \in 1..MaxDepth, params \in ModelParams :
            OpenStreamModel(c, model_name, q, params)
              => /\ streamHello'.op = "stream" /\ streamHello'.name = model_name
                 /\ streamHello'.depth = q
                 /\ streamHello'.config = (IF params # NoParams THEN params ELSE "absent")
                 /\ c2s' = <<>> /\ s2c' = <<>> /\ pc' = pc
       /\ streamHello' # streamHello => ~streamOpen /\ streamOpen']_vars

\* C24 as amended: openStream() writes one control message on the stream
\* socket it has just connected, before any frame, and reads no response;
\* the message is a "stream" request that carries the model name, the
\* additional parameters when there are any, and the protocol version; the
\* depth of the frame queue is kept by the client and is not sent.
C24_StreamRequestFirst ==
    [][/\ \A c \in Callers, model_name \in ModelNames, q \in 1..MaxDepth, params \in ModelParams :
            OpenStreamModel(c, model_name, q, params)
              => /\ streamHello'.op = "stream" /\ streamHello'.name = model_name
                 /\ streamHello'.depth = NoDepth /\ queueDepth' = q
                 /\ streamHello'.config = (IF params # NoParams THEN params ELSE "absent")
                 /\ streamHello'.version = CURRENT_PROTOCOL_VERSION
                 /\ c2s' = <<>> /\ s2c' = <<>> /\ pc' = pc
       /\ streamHello' # streamHello => ~streamOpen /\ streamOpen']_vars

\* a stream was opened for the second model with additional parameters and
\* the largest queue depth
C24_Witness ==
    /\ streamOpen /\ queueDepth = MaxDepth
    /\ streamHello.op = "stream" /\ streamHello.name = "m2" /\ streamHello.config = "p1"

\* m_last_error is assigned in this step
ErrorWritten ==
    \/ lastError' # lastError
    \/ \E d \in Callers : pc[d] = "spawn" /\ pc'[d] # "spawn"

\* C25: the getters can be called from any thread at any time: no
\* assignment of m_last_error, by the result receiving thread or by
\* dataSend(), falls into a call of lastError(), the process survives, and
\* each getter returns a value its variable held.
C25_GettersThreadSafe ==
    /\ [][(\E c \in Callers : pc[c] = "get") => ~ErrorWritten]_vars
    /\ [](crashed # "segv")
    /\ [](\A c \in Callers : got[c] # Torn /\ gotCount[c] \in 0..MaxDepth)

\* the name is the name of a model of the zoo
InZoo(zoo, model_name) == \E i \in 1..Len(zoo) : zoo[i].name = model_name

\* C27: a property read right after it was set has the value that was set,
\* for every property of the element and every value set.
C27_PropertyRoundTrip ==
    propGot # NoProp => propGot.prop = propSet.prop /\ propGot.value = propSet.value

\* C28: DgAcceleratorCtxInit raises a runtime error and makes no model when
\* the name of a local model is not the name of a model of the zoo, when
\* the processing width or height differs from W or H of the model of that
\* name, and when a cloud model is asked for with an empty token.
C28_InitValidates ==
    ctx # NoCtx =>
      /\ IsLocalName(ctx.model_name) /\ ~InZoo(ctx.zoo, ctx.model_name)
           => ctx.out # "ok" /\ ~ctx.model
      /\ IsLocalName(ctx.model_name)
           => \A i \in 1..Len(ctx.zoo) :
                 /\ ctx.zoo[i].name = ctx.model_name
                 /\ ctx.zoo[i].W # ctx.processing_width \/ ctx.zoo[i].H # ctx.processing_height
                 => ctx.out # "ok" /\ ~ctx.model
      /\ ~IsLocalName(ctx.model_name) /\ ctx.cloud_token = <<>>
           => ctx.out # "ok" /\ ~ctx.model

\* the command round trip completed with no error: the request was written,
\* a json object with the protocol version was read, and the server did not
\* report a failure
RoundTripOk(response) ==
    /\ response.kind = "object"
    /\ response.version # NoVersion
    /\ response.success # "false"

\* C26: ping() returns true exactly when the command round trip completed
\* with no error; on every failure (success = false, no protocol version,
\* a malformed response, a transport error) it returns false and raises
\* nothing.
C26_PingTrueIffNoError ==
    cmdReq.op = "sleep" /\ cmdOut \notin {"none", "prepared"} =>
      /\ cmdOut \in {"true", "false"}
      /\ cmdOut = "true" <=> RoundTripOk(cmdResp)

C26_Witness == cmdReq.op = "sleep" /\ cmdOut = "false" /\ cmdResp.kind = "ioerror"

\* a header read completed and Client::dataReceive ran its section under
\* the mutex, on the result receiving thread
ReadCompleted == disp = "run" /\ disp' = "callback"

\* C29: at most one header read is pending on the stream socket in every
\* state; the number of pending reads rises only when dataSend() raises the
\* count of outstanding frames from 0 to 1, and after a completed read
\* another one is pending exactly when outstanding frames remain.
C29_OneReadPending ==
    /\ [](readArmed <= 1)
    /\ [][readArmed' > readArmed => outstanding = 0 /\ outstanding' = 1]_vars
    /\ [][ReadCompleted => /\ readArmed = 1
                           /\ readArmed' = IF outstanding' > 0 THEN 1 ELSE 0]_vars

C29_Witness ==
    disp = "callback" /\ readArmed = 1 /\ outstanding >= 1 /\ Len(accepted) >= 2

\* C30: whenever no error is latched (and the process runs), the frame
\* info queue is as long as the count of outstanding frames.
C30_QueueMatchesCount ==
    lastError = "" /\ crashed = "no" => Len(frameQ) = outstanding

\* dataSend() executes lines 402-405 under the mutex in this step
SendCounts == \E c \in Callers : pc[c] \in {"idle", "waiting"} /\ pc'[c] = "write"

\* the result receiving thread executes the section of dataReceive under
\* the mutex, or its catch block, in this step
DispatcherCounts == disp = "run" /\ disp' \in {"callback", "done"}

\* C31: the count of outstanding frames is never negative; it rises only by
\* one, in dataSend() under the mutex, and falls only in a step of the
\* result receiving thread (a result or an error attributed, or the catch
\* block).
C31_CountNeverNegative ==
    /\ [](outstanding >= 0)
    /\ [][outstanding' > outstanding => outstanding' = outstanding + 1 /\ SendCounts]_vars
    /\ [][outstanding' < outstanding => DispatcherCounts]_vars

\* C32: a dataSend() that waited for a free slot and finds the stop flag
\* set when its wait ends returns without sending: it pushes no frame
\* info, does not count the frame and writes nothing, whoever set the flag.
C32_WokenStoppedSendReturns ==
    [][\A c \in Callers :
          pc[c] = "waiting" /\ pc'[c] # "waiting" /\ stop
            => /\ pc'[c] = "idle"
               /\ frameQ' = frameQ /\ outstanding' = outstanding /\ c2s' = c2s]_vars

\* C33: an exception raised by the user callback is discarded: the stop
\* flag, the error, the count of outstanding frames and the frame info
\* queue are as after a callback that returned, and the thread goes on
\* running the executor, so that later results are read and dispatched.
C33_CallbackExceptionDiscarded ==
    [][disp = "callback" /\ disp' # "callback" /\ callback \in ThrowingCallbacks
         => /\ disp' = "run"
            /\ stop' = stop /\ lastError' = lastError
            /\ outstanding' = outstanding /\ frameQ' = frameQ]_vars

\* a result is dispatched by the thread whose callback raised on an earlier one
C33_Witness ==
    /\ callback \in ThrowingCallbacks /\ sessions = 1
    /\ disp = "callback" /\ Len(delivered) >= 1
    /\ lastError = "" /\ ~stop

\* the result receiving thread is (re)started in this step: lines 422-425
SessionStarts == \E c \in Callers : pc[c] = "spawn" /\ pc'[c] # "spawn"

C35_OneDispatcherThread ==
    /\ [][SessionStarts => ~Joinable]_vars
    /\ [](crashed # "terminate")

InSeq(e, q) == \E i \in 1..Len(q) : q[i] = e

\* C36: when the write of the frame fails inside dataSend(), the call
\* raises the transport error and leaves neither the frame's info in the
\* queue nor the frame in the count: the frame infos queued are those of
\* frames that were written or are being written.
C36_FailedWriteNotCounted ==
    /\ [][\A c \in Callers :
            pc[c] = "write" /\ pc'[c] = "idle"
              => last'[c] = "send_ioerr" /\ ~InSeq(cur[c], frameQ')]_vars
    /\ [](\A c \in Callers : last[c] = "send_ioerr" /\ pc[c] = "idle" /\ nsends = 1
            => outstanding = 0 /\ frameQ = <<>>)

\* C37: a result of the stream that reports an error (success = false)
\* stops the stream whatever its message: after dataReceive() has handled
\* it the stop flag is set and m_last_error is not empty, with the field
\* msg absent, empty or not empty.
C37_EveryErrorResultStops ==
    [][ReadCompleted /\ s2c # <<>> /\ Head(s2c).body.success = "false"
         => stop' /\ lastError' # ""]_vars

\* the result receiving thread executes its body
DispatcherRunning == disp \in {"loop", "run", "callback", "wait"}

\* a dataSend() has counted its frame and has not yet returned
SendInProgress == \E c \in Callers : pc[c] \in {"write", "thread", "spawn"}

\* C38: no counted frame is stranded: whenever frames are outstanding and
\* no error is latched (and the process runs), the result receiving thread
\* executes its loop or a dataSend() is still on its way to start it.
C38_NoFrameStranded ==
    outstanding > 0 /\ lastError = "" /\ crashed = "no"
      => DispatcherRunning \/ SendInProgress

\* C39: dataReceive() never takes the front of an empty queue: whenever a
\* header read is pending the frame info queue is not empty, and the queue
\* is never shorter than the count of outstanding frames, also after
\* errors.
C39_QueueNonEmptyOnRead ==
    /\ readArmed > 0 => frameQ # <<>>
    /\ Len(frameQ) >= outstanding

C39_Witness == readArmed = 1 /\ Len(frameQ) >= 1 /\ Len(delivered) >= 1

\* neither thread is inside DgAcceleratorProcess or the callback
AccQuiet == ppc \in {"idle", "failed"} /\ cpc = "idle"

\* C40: the counter diff of the accelerator context is the number of frames
\* handed to predict() whose callback has not run, whenever neither thread
\* is in the middle of its update, and it never falls below 0.
C40_DiffCountsFramesInFlight ==
    /\ AccQuiet => diff = inflight
    /\ diff >= 0

====
